---- MODULE Spec2Model ----
(***************************************************************************)
(* haproxyctl: the declarative "apply" engine for Backend and Frontend     *)
(* manifests (ApplyBackendFromYAML / ApplyFrontendFromYAML), its child     *)
(* reconciliation (applyServerDiff / applyBindDiff) and the versioned      *)
(* Data Plane API it talks to.                                             *)
(*                                                                         *)
(* Texts (duration strings) are sequences of one-character strings; the    *)
(* 64-bit counts of milliseconds and nanoseconds are kept as hours,        *)
(* milliseconds and nanoseconds.  Spec is the apply engine; Conversions    *)
(* runs the timeout conversions on their own inputs.                       *)
(* One behaviour manages one parent resource of one kind; the remote is    *)
(* the Data Plane API's configuration store with its version counter.      *)
(***************************************************************************)
EXTENDS Integers, Sequences, FiniteSets, TLC

\* ------------------------------------------------------------------------
\* Bounds of the model
\* ------------------------------------------------------------------------
\* children a manifest lists at most
MaxChildren == 2

\* invocations of apply in one behaviour
MaxApplies == 2

\* writes by other clients in one behaviour
MaxExternal == 1

\* distance from a landmark of the millisecond counts the conversions are
\* given
MaxStep == 20

\* length of the timeout texts the conversions are given
MaxText == 3

\* ------------------------------------------------------------------------
\* Texts and durations (internal.ParseDurationToMillis / FormatMillisAsDuration)
\* ------------------------------------------------------------------------
DigitChars == <<"0", "1", "2", "3", "4", "5", "6", "7", "8", "9">>

IsDigit(c) == \E i \in 1..10 : DigitChars[i] = c

DigitVal(c) == (CHOOSE i \in 1..10 : DigitChars[i] = c) - 1

AllDigits(s) == \A i \in 1..Len(s) : IsDigit(s[i])

\* the value of a run of at most nine digits
RECURSIVE DigitsToInt(_)
DigitsToInt(s) ==
    IF s = <<>> THEN 0
    ELSE 10 * DigitsToInt(SubSeq(s, 1, Len(s) - 1)) + DigitVal(s[Len(s)])

RECURSIVE IntToDigits(_)
IntToDigits(n) ==
    IF n < 10 THEN <<DigitChars[n + 1]>>
    ELSE IntToDigits(n \div 10) \o <<DigitChars[(n % 10) + 1]>>

\* A Go int counting milliseconds is 64 bits wide.  It is kept in sign and
\* magnitude, the magnitude as whole hours and the milliseconds below an
\* hour (0..3599999): 2^63 - 1 nanoseconds are 2562047 hours, 2836854
\* milliseconds and 775807 nanoseconds.  There is no negative zero.
GoInt(neg, h, ms) == [neg |-> neg /\ (h > 0 \/ ms > 0), h |-> h, ms |-> ms]

\* the int of value n
Millis(n) ==
    IF n < 0 THEN GoInt(TRUE, (-n) \div 3600000, (-n) % 3600000)
    ELSE GoInt(FALSE, n \div 3600000, n % 3600000)

\* a mutant of Positive: every count passes
PositiveAlways(x) == TRUE

\* ms > 0
Positive(x) == ~x.neg /\ (x.h > 0 \/ x.ms > 0)

\* value returned by the model's parsers for "error"
ParseError == [error |-> TRUE]

\* strconv.Atoi: an optional sign and decimal digits; ParseError otherwise
Atoi(s) ==
    LET signed == s # <<>> /\ s[1] \in {"+", "-"}
        digits == IF signed THEN Tail(s) ELSE s
        n == Millis(DigitsToInt(digits))
    IN  IF digits = <<>> \/ ~AllDigits(digits) THEN ParseError
        ELSE GoInt(s[1] = "-", n.h, n.ms)

\* length of the leading run of digits of s
RECURSIVE LeadingDigits(_)
LeadingDigits(s) ==
    IF s = <<>> \/ ~IsDigit(s[1]) THEN 0
    ELSE 1 + LeadingDigits(Tail(s))

\* length of the leading run of unit letters (anything but a digit or ".")
RECURSIVE LeadingUnit(_)
LeadingUnit(s) ==
    IF s = <<>> \/ IsDigit(s[1]) \/ s[1] = "." THEN 0
    ELSE 1 + LeadingUnit(Tail(s))

\* time.ParseDuration's unitMap; "us" stands for its three spellings of
\* the microsecond
KnownUnit(u) ==
    u \in {<<"n", "s">>, <<"u", "s">>, <<"m", "s">>, <<"s">>, <<"m">>, <<"h">>}

\* milliseconds per unit for the units of a millisecond or more, and 0
\* for the units below it
UnitMillis(u) ==
    CASE u = <<"m", "s">> -> 1
      [] u = <<"s">> -> 1000
      [] u = <<"m">> -> 60000
      [] u = <<"h">> -> 3600000
      [] OTHER -> 0

\* nanoseconds per unit for the units below a millisecond
UnitNanos(u) == IF u = <<"u", "s">> THEN 1000 ELSE 1

\* the decimal zeros at the end of a unit's milliseconds (nanoseconds,
\* for the units below a millisecond)
UnitZeros(u) ==
    CASE u = <<"h">> -> 5
      [] u = <<"m">> -> 4
      [] u = <<"s">> -> 3
      [] u = <<"u", "s">> -> 3
      [] OTHER -> 0

RECURSIVE Pow10(_)
Pow10(n) == IF n = 0 THEN 1 ELSE 10 * Pow10(n - 1)

\* A time.Duration (int64 nanoseconds) is kept in sign and magnitude: whole
\* hours, the milliseconds below an hour and the nanoseconds below a
\* millisecond; ok is FALSE when ParseDuration returns an error.
Dur(ok, neg, h, ms, ns) == [ok |-> ok, neg |-> neg, h |-> h, ms |-> ms, ns |-> ns]

\* the carries of a magnitude whose ms and ns parts have run over
Carry(h, ms, ns) ==
    Dur(TRUE, FALSE, h + ((ms + (ns \div 1000000)) \div 3600000),
        (ms + (ns \div 1000000)) % 3600000, ns % 1000000)

\* magnitude a is at most magnitude b
MagLeq(a, b) ==
    \/ a.h < b.h
    \/ a.h = b.h /\ a.ms < b.ms
    \/ a.h = b.h /\ a.ms = b.ms /\ a.ns <= b.ns

\* the first segment [0-9]*(\.[0-9]*)?[a-z]+ of a duration text, split
\* into its integer digits, fraction digits, unit and the text after it
SplitUnit(whole, frac, rest) ==
    LET nUnit == LeadingUnit(rest)
    IN  [whole |-> whole, frac |-> frac,
         unit |-> SubSeq(rest, 1, nUnit),
         rest |-> SubSeq(rest, nUnit + 1, Len(rest))]

SplitFrac(whole, rest) ==
    IF rest # <<>> /\ rest[1] = "."
    THEN LET nFrac == LeadingDigits(Tail(rest))
         IN  SplitUnit(whole, SubSeq(rest, 2, nFrac + 1),
                       SubSeq(rest, nFrac + 2, Len(rest)))
    ELSE SplitUnit(whole, <<>>, rest)

SplitSegment(s) ==
    LET nInt == LeadingDigits(s)
    IN  SplitFrac(SubSeq(s, 1, nInt), SubSeq(s, nInt + 1, Len(s)))

\* v *= unit: whole units of per milliseconds each (per > 0) or of nanos
\* nanoseconds each
WholeValue(whole, per, nanos) ==
    IF per > 0
    THEN Dur(TRUE, FALSE, whole \div (3600000 \div per),
             (whole % (3600000 \div per)) * per, 0)
    ELSE Dur(TRUE, FALSE, 0, whole \div (1000000 \div nanos),
             (whole % (1000000 \div nanos)) * nanos)

\* v += uint64(float64(f) * (float64(unit) / scale)): the fraction
\* 0.frac, of k digits, of a unit of per milliseconds (per > 0) or of
\* 10^z nanoseconds, z being the zeros at the unit's end, cut to whole
\* nanoseconds.  The
\* floating-point product is the exact quotient for fractions of at most
\* nine digits.
FracValue(frac, k, per, z) ==
    IF per = 0
    THEN Dur(TRUE, FALSE, 0, 0,
             IF k <= z THEN frac * Pow10(z - k) ELSE frac \div Pow10(k - z))
    ELSE IF k <= z
    THEN Dur(TRUE, FALSE, 0, frac * (per \div Pow10(k)), 0)
    ELSE Dur(TRUE, FALSE, 0,
             (frac * (per \div Pow10(z))) \div Pow10(k - z),
             IF k - z <= 6
             THEN ((frac * (per \div Pow10(z))) % Pow10(k - z)) * Pow10(6 - (k - z))
             ELSE ((frac * (per \div Pow10(z))) % Pow10(k - z)) \div Pow10((k - z) - 6))

\* the value of one segment: whole.frac units
SegmentValue(whole, frac, k, u) ==
    LET w == WholeValue(whole, UnitMillis(u), UnitNanos(u))
        f == FracValue(frac, k, UnitMillis(u), UnitZeros(u))
    IN  Carry(w.h, w.ms + f.ms, w.ns + f.ns)

\* d += v
AddDur(a, b) ==
    IF ~b.ok THEN b ELSE Carry(a.h + b.h, a.ms + b.ms, a.ns + b.ns)

\* the loop of time.ParseDuration over the segments
\* ([0-9]*(\.[0-9]*)?[a-z]+)+ of an unsigned text
RECURSIVE ParseSegments(_)
ParseSegment(g) ==
    IF \/ Len(g.whole) + Len(g.frac) = 0
       \/ ~KnownUnit(g.unit)
    THEN Dur(FALSE, FALSE, 0, 0, 0)
    ELSE AddDur(SegmentValue(DigitsToInt(g.whole), DigitsToInt(g.frac),
                             Len(g.frac), g.unit),
                ParseSegments(g.rest))

ParseSegments(s) ==
    IF s = <<>> THEN Dur(TRUE, FALSE, 0, 0, 0) ELSE ParseSegment(SplitSegment(s))

\* time.ParseDuration: [-+]?([0-9]*(\.[0-9]*)?[a-z]+)+ or "0"; an error
\* when the magnitude is beyond 2^63 - 1 nanoseconds (2^63 if negative)
ParseDuration(s) ==
    LET signed == s # <<>> /\ s[1] \in {"+", "-"}
        neg == signed /\ s[1] = "-"
        body == IF signed THEN Tail(s) ELSE s
        d == ParseSegments(body)
    IN  IF body = <<"0">> THEN Dur(TRUE, FALSE, 0, 0, 0)
        ELSE IF body = <<>> \/ ~d.ok THEN Dur(FALSE, FALSE, 0, 0, 0)
        ELSE IF ~MagLeq(d, Dur(TRUE, neg, 2562047, 2836854, IF neg THEN 775808 ELSE 775807))
        THEN Dur(FALSE, FALSE, 0, 0, 0)
        ELSE Dur(TRUE, neg /\ (d.h > 0 \/ d.ms > 0 \/ d.ns > 0), d.h, d.ms, d.ns)

\* strings.TrimSpace
RECURSIVE TrimSpace(_)
TrimSpace(s) ==
    IF s # <<>> /\ s[1] = " " THEN TrimSpace(Tail(s))
    ELSE IF s # <<>> /\ s[Len(s)] = " " THEN TrimSpace(SubSeq(s, 1, Len(s) - 1))
    ELSE s

\* int(d / time.Millisecond): the quotient is cut towards zero
DurationMillis(d) == IF ~d.ok THEN ParseError ELSE GoInt(d.neg, d.h, d.ms)

\* ParseDurationToMillis: "" -> 0, a bare integer is milliseconds,
\* otherwise time.ParseDuration truncated to milliseconds
ParseDurationToMillis(text) ==
    LET s == TrimSpace(text)
    IN  IF s = <<>> THEN Millis(0)
        ELSE IF Atoi(s) # ParseError THEN Atoi(s)
        ELSE DurationMillis(ParseDuration(s))

\* time.Duration(ms) * time.Millisecond, a product in int64: up to
\* 9223372036854 ms (2562047 h and 2836854 ms) it is exact; beyond, up to
\* 2^64 ns (5124095 h, 2073709 ms and 551616 ns), it wraps around by 2^64
\* and changes sign
MillisToDuration(ms) ==
    IF MagLeq(Dur(TRUE, FALSE, ms.h, ms.ms, 0), Dur(TRUE, FALSE, 2562047, 2836854, 0))
    THEN Dur(TRUE, ms.neg, ms.h, ms.ms, 0)
    ELSE IF ms.ms <= 2073709
    THEN Dur(TRUE, ~ms.neg, 5124095 - ms.h, 2073709 - ms.ms, 551616)
    ELSE Dur(TRUE, ~ms.neg, 5124094 - ms.h, 5673709 - ms.ms, 551616)

\* a mutant of FracDigits: the fraction is not printed
FracDigitsNone(n, prec) == <<>>

\* fmtFrac: the prec digits of n behind a ".", trailing zeros removed;
\* nothing when n = 0
FracDigits(n, prec) ==
    IF n = 0 THEN <<>>
    ELSE LET digit == [i \in 1..prec |-> DigitChars[((n \div Pow10(prec - i)) % 10) + 1]]
             keep == CHOOSE i \in 1..prec :
                         /\ digit[i] # "0"
                         /\ \A j \in (i + 1)..prec : digit[j] = "0"
         IN  <<".">> \o SubSeq(digit, 1, keep)

\* time.Duration.String of a magnitude; "us" stands for the microsecond
\* sign and s
MagString(d) ==
    IF d.h = 0 /\ d.ms = 0 /\ d.ns = 0 THEN <<"0", "s">>
    ELSE IF d.h = 0 /\ d.ms = 0 /\ d.ns < 1000 THEN IntToDigits(d.ns) \o <<"n", "s">>
    ELSE IF d.h = 0 /\ d.ms = 0
    THEN IntToDigits(d.ns \div 1000) \o FracDigits(d.ns % 1000, 3) \o <<"u", "s">>
    ELSE IF d.h = 0 /\ d.ms < 1000
    THEN IntToDigits(d.ms) \o FracDigits(d.ns, 6) \o <<"m", "s">>
    ELSE
      LET m == d.ms \div 60000
          secs == (d.ms \div 1000) % 60
          sPart == IntToDigits(secs) \o FracDigits(((d.ms % 1000) * 1000000) + d.ns, 9)
                   \o <<"s">>
      IN  IF d.h > 0 THEN IntToDigits(d.h) \o <<"h">> \o IntToDigits(m) \o <<"m">> \o sPart
          ELSE IF m > 0 THEN IntToDigits(m) \o <<"m">> \o sPart
          ELSE sPart

\* time.Duration.String
String(d) == IF d.neg THEN <<"-">> \o MagString(d) ELSE MagString(d)

\* FormatMillisAsDuration: 0 -> "", else
\* (time.Duration(ms) * time.Millisecond).String()
FormatMillisAsDuration(ms) ==
    IF ms = Millis(0) THEN <<>> ELSE String(MillisToDuration(ms))

\* ------------------------------------------------------------------------
\* Manifest model: children (servers.ServerConfig, frontends.BindConfig)
\* ------------------------------------------------------------------------
\* One record shape serves both child kinds.  A ServerConfig uses name,
\* address, port, weight, ssl, backend and parent, and has the envelope
\* fields apiVersion and kind, empty unless the YAML of the server gives
\* them; a BindConfig uses address, port, ssl and name (its wire name),
\* with weight = 0 and the other fields "".
ServerConfig(n, a, p, w, s, b, par) ==
    [name |-> n, address |-> a, port |-> p, weight |-> w, ssl |-> s,
     backend |-> b, parent |-> par, apiVersion |-> "", kind |-> ""]

BindConfig(a, p, s, n) ==
    [name |-> n, address |-> a, port |-> p, weight |-> 0, ssl |-> s,
     backend |-> "", parent |-> "", apiVersion |-> "", kind |-> ""]

\* A JSON child object of the remote: absent string fields are "", absent
\* numbers are 0, and ssl is "" (absent), "enabled" (the v3 enum) or
\* "true" (a JSON boolean).
WireChild(n, a, p, w, s) ==
    [name |-> n, address |-> a, port |-> p, weight |-> w, ssl |-> s]

\* json.Marshal of a ServerConfig, the body CreateServer posts: ssl is a
\* Go bool with omitempty, so it is the JSON boolean true or absent
ServerWire(s) ==
    WireChild(s.name, s.address, s.port, s.weight, IF s.ssl THEN "true" ELSE "")

\* json.Marshal of a BindConfig, the body createBind posts: Name is
\* json:"-", ssl a Go bool with omitempty
BindWire(b) ==
    WireChild("", b.address, b.port, 0, IF b.ssl THEN "true" ELSE "")

\* BindConfig.toPayload: the v3 enum for ssl instead of a boolean
bindToPayload(b) ==
    WireChild(b.name, b.address, b.port, 0, IF b.ssl THEN "enabled" ELSE "")

\* the body UpdateServer sends: the server with ssl as the v3 enum
ServerPayload(s) ==
    WireChild(s.name, s.address, s.port, s.weight, IF s.ssl THEN "enabled" ELSE "")

\* mapServerFromAPI: name, address, port, weight copied, ssl true only for
\* the string "enabled", Backend set to the backend's name
mapServerFromAPI(backendName, obj) ==
    ServerConfig(obj.name, obj.address, obj.port, obj.weight,
                 obj.ssl = "enabled", backendName, "")

\* mapBindFromAPI: name, address, port copied, ssl true only for "enabled"
mapBindFromAPI(obj) ==
    BindConfig(obj.address, obj.port, obj.ssl = "enabled", obj.name)

\* a mutant of ServerComplete: nothing is filtered out
ServerCompleteAlways(sc) == TRUE

\* a mutant of ServerComplete: the port is not looked at
ServerCompleteAnyPort(sc) == sc.name # "" /\ sc.address # ""

\* the filter both apply functions put on the fetched children
ServerComplete(sc) == sc.name # "" /\ sc.address # "" /\ sc.port # 0

BindComplete(bc) == bc.address # "" /\ bc.port # 0

\* "before": the typed, filtered view of the fetched servers
BeforeServers(backendName, rawServers) ==
    LET Map(i) == mapServerFromAPI(backendName, rawServers[i])
        typed == [i \in 1..Len(rawServers) |-> Map(i)]
    IN  SelectSeq(typed, ServerComplete)

\* "before": the typed, filtered view of the fetched binds
BeforeBinds(rawBinds) ==
    LET typed == [i \in 1..Len(rawBinds) |-> mapBindFromAPI(rawBinds[i])]
    IN  SelectSeq(typed, BindComplete)

\* ------------------------------------------------------------------------
\* Identity and equality rules
\* ------------------------------------------------------------------------
\* identity key of a server: its name
ServerKey(s) == <<s.name>>

\* identity key of a bind: fmt.Sprintf("%s:%d", Address, Port)
BindKey(b) == <<b.address, b.port>>

\* a mutant of serverConfigEqual: the parent is compared too
serverConfigEqualParent(a, b) ==
    /\ a.name = b.name
    /\ a.address = b.address
    /\ a.port = b.port
    /\ a.weight = b.weight
    /\ a.ssl = b.ssl
    /\ a.parent = b.parent

\* serverConfigEqual: name, address, port, weight, ssl
serverConfigEqual(a, b) ==
    /\ a.name = b.name
    /\ a.address = b.address
    /\ a.port = b.port
    /\ a.weight = b.weight
    /\ a.ssl = b.ssl

\* a mutant of bindConfigEqual: the name is compared too
bindConfigEqualNamed(a, b) ==
    /\ a.name = b.name
    /\ a.address = b.address
    /\ a.port = b.port
    /\ a.ssl = b.ssl

\* bindConfigEqual: address, port, ssl; Name is ignored
bindConfigEqual(a, b) ==
    /\ a.address = b.address
    /\ a.port = b.port
    /\ a.ssl = b.ssl

\* keys of a collection
KeysOf(seq, Key(_)) == {Key(seq[i]) : i \in 1..Len(seq)}

\* the Go lookup map built by a loop of assignments: the last element
\* with a key is the one the map holds
ByKey(seq, Key(_)) ==
    [k \in KeysOf(seq, Key) |->
        seq[CHOOSE i \in 1..Len(seq) :
               /\ Key(seq[i]) = k
               /\ \A j \in (i + 1)..Len(seq) : Key(seq[j]) # k]]

\* a mutant of serversEqualByName: compares whole ServerConfig values,
\* Backend included
serversEqualByNameWhole(a, b) ==
    /\ Len(a) = Len(b)
    /\ LET aByName == ByKey(a, ServerKey)
       IN  \A i \in 1..Len(b) :
             /\ ServerKey(b[i]) \in DOMAIN aByName
             /\ aByName[ServerKey(b[i])] = b[i]

\* a mutant of serversEqualByName: the lengths are not compared
serversEqualByNameAnyLength(a, b) ==
    LET aByName == ByKey(a, ServerKey)
    IN  \A i \in 1..Len(b) :
          /\ ServerKey(b[i]) \in DOMAIN aByName
          /\ serverConfigEqual(aByName[ServerKey(b[i])], b[i])

\* serversEqualByName: same length, every element of b found in a by name
\* and serverConfigEqual to it
serversEqualByName(a, b) ==
    /\ Len(a) = Len(b)
    /\ LET aByName == ByKey(a, ServerKey)
       IN  \A i \in 1..Len(b) :
             /\ ServerKey(b[i]) \in DOMAIN aByName
             /\ serverConfigEqual(aByName[ServerKey(b[i])], b[i])

\* bindsEqualByKey: same length, every element of b found in a by
\* address:port and bindConfigEqual to it
bindsEqualByKey(a, b) ==
    /\ Len(a) = Len(b)
    /\ LET aByKey == ByKey(a, BindKey)
       IN  \A i \in 1..Len(b) :
             /\ BindKey(b[i]) \in DOMAIN aByKey
             /\ bindConfigEqual(aByKey[BindKey(b[i])], b[i])

\* ------------------------------------------------------------------------
\* Manifest model: parents (backendConfig, frontendConfig)
\* ------------------------------------------------------------------------
\* The parent fields the model keeps: name, mode, timeout_server (a
\* duration text), cookie (a backendConfig field sent on the wire that
\* populateBackendConfigFromMap does not read) and default_backend (a
\* frontendConfig field).
ParentConfig(n, m, t, c, d) ==
    [name |-> n, mode |-> m, timeout_server |-> t, cookie |-> c, default_backend |-> d]

\* the zero value of backendConfig / frontendConfig
ZeroConfig == ParentConfig("", "", <<>>, "", "")

\* a JSON parent object: timeout_server is integer milliseconds, 0 = absent
WireObject(n, m, ms, c, d) ==
    [name |-> n, mode |-> m, timeout_server |-> ms, cookie |-> c, default_backend |-> d]

\* the object whose timeout is the number ms
WireParent(n, m, ms, c, d) == WireObject(n, m, Millis(ms), c, d)

NoObject == WireParent("", "", 0, "", "")

\* the log.Fatalf of toPayload / ToPayload: a timeout that is neither a
\* bare integer nor a parseable duration ends the process
PayloadFatal(cfg) == ParseDurationToMillis(cfg.timeout_server) = ParseError

\* backendWithServers.toPayload: the config with the timeout in integer
\* milliseconds, set only when positive
toPayload(cfg) ==
    LET ms == ParseDurationToMillis(cfg.timeout_server)
    IN  WireObject(cfg.name, cfg.mode, IF Positive(ms) THEN ms ELSE Millis(0),
                   cfg.cookie, cfg.default_backend)

\* frontendWithBinds.ToPayload: as toPayload, for a frontend
ToPayload(cfg) ==
    LET ms == ParseDurationToMillis(cfg.timeout_server)
    IN  WireObject(cfg.name, cfg.mode, IF Positive(ms) THEN ms ELSE Millis(0),
                   cfg.cookie, cfg.default_backend)

\* populateBackendConfigFromMap: name, mode and the timeouts (rendered by
\* FormatMillisAsDuration) are read; cookie is not
populateBackendConfigFromMap(obj) ==
    ParentConfig(obj.name, obj.mode, FormatMillisAsDuration(obj.timeout_server), "", "")

\* populateFrontendConfigFromMap: name, mode, default_backend and the
\* timeouts are read
populateFrontendConfigFromMap(obj) ==
    ParentConfig(obj.name, obj.mode, FormatMillisAsDuration(obj.timeout_server),
                 "", obj.default_backend)

\* a manifest: the envelope, the parent config and the children
Manifest(av, k, cfg, ch) ==
    [apiVersion |-> av, kind |-> k, cfg |-> cfg, children |-> ch]

\* a mutant of BackendValidate: the mode is not looked at
BackendValidateAnyMode(m) ==
    /\ m.cfg.name # ""
    /\ m.kind = "Backend"
    /\ m.apiVersion # ""
    /\ \A i \in 1..Len(m.children) : ServerComplete(m.children[i])

\* backendWithServers.Validate
BackendValidate(m) ==
    /\ m.cfg.name # ""
    /\ m.kind = "Backend"
    /\ m.apiVersion # ""
    /\ m.cfg.mode \in {"http", "tcp"}
    /\ \A i \in 1..Len(m.children) : ServerComplete(m.children[i])

\* frontendWithBinds.Validate
FrontendValidate(m) ==
    /\ m.cfg.name # ""
    /\ m.cfg.mode \in {"http", "tcp"}
    /\ \A i \in 1..Len(m.children) : BindComplete(m.children[i])

\* strings.ToLower on the kinds the model uses
ToLower(k) ==
    CASE k \in {"Backend", "backend"} -> "backend"
      [] k \in {"Frontend", "frontend"} -> "frontend"
      [] k \in {"Global", "global"} -> "global"
      [] k \in {"Defaults", "defaults"} -> "defaults"
      [] k \in {"Server", "server"} -> "server"
      [] OTHER -> k

\* a mutant of ResourceID: the kind is printed as it was passed
ResourceIDVerbatim(k, name) == k \o "/" \o name

\* internal.ResourceID: fmt.Sprintf("%s/%s", strings.ToLower(kind), name)
ResourceID(k, name) == ToLower(k) \o "/" \o name

\* the line internal.PrintStatus writes: "%s %s\n" of the ResourceID and
\* the action
StatusLine(k, name, action) == ResourceID(k, name) \o " " \o action

\* ------------------------------------------------------------------------
\* Manifest model: the sections (configuration.GlobalConfig,
\* configuration.DefaultsConfig)
\* ------------------------------------------------------------------------
\* the fields of a GlobalConfig other than apiVersion and kind
GlobalConfig(d, mc) == [daemon |-> d, maxconn |-> mc]

\* the fields of a DefaultsConfig other than apiVersion and kind
DefaultsConfig(n, m) == [name |-> n, mode |-> m]

\* mapGlobalFromAPI: apiVersion and kind are filled in, the fields copied
mapGlobalFromAPI(obj) ==
    Manifest("haproxyctl/v1", "Global", GlobalConfig(obj.daemon, obj.maxconn), <<>>)

\* mapDefaultsFromAPI: apiVersion and kind are filled in, the fields copied
mapDefaultsFromAPI(obj) ==
    Manifest("haproxyctl/v1", "Defaults", DefaultsConfig(obj.name, obj.mode), <<>>)

\* GlobalConfig{} / DefaultsConfig{}: what getCurrent returns when the
\* section is not there
ZeroSection(k) ==
    IF k = "global" THEN Manifest("", "", GlobalConfig(FALSE, 0), <<>>)
    ELSE Manifest("", "", DefaultsConfig("", ""), <<>>)

\* the payload putGlobal sends
putGlobalPayload(cfg) == [daemon |-> cfg.daemon, maxconn |-> cfg.maxconn]

\* the payload putDefaults sends: the name is in the path only, so the
\* section keeps the name it is addressed by
putDefaultsPayload(cfg) == [name |-> cfg.name, mode |-> cfg.mode]

\* ------------------------------------------------------------------------
\* The remote: the Data Plane API's configuration and its version counter
\* ------------------------------------------------------------------------
\* remote = [exists, cfg, children, version]: whether the parent exists,
\* its JSON object, the JSON objects of its children in list order, and
\* the configuration version.
RemoteAbsent(v) ==
    [exists |-> FALSE, cfg |-> NoObject, children |-> <<>>, version |-> v]

HasChildNamed(r, n) == \E i \in 1..Len(r.children) : r.children[i].name = n

\* the name the remote assigns to a child posted without one
AssignedName(body) == body.address \o ":" \o ToString(body.port)

\* the remote without its children named n
RemoveNamed(children, n) ==
    LET Keep(c) == c.name # n IN SelectSeq(children, Keep)

\* a mutant of RemoteWrite: the version a write carries is not looked at
RemoteWriteUnversioned(r, method, level, name, body, v) ==
    LET Reject(res) == [res |-> res, remote |-> r]
        Accept(rr) == [res |-> "ok", remote |-> [rr EXCEPT !.version = r.version + 1]]
    IN  IF level = "parent" THEN
            IF method = "POST"
            THEN IF r.exists THEN Reject("conflict")
                 ELSE Accept([r EXCEPT !.exists = TRUE, !.cfg = body, !.children = <<>>])
            ELSE IF ~r.exists THEN Reject("notfound")
                 ELSE Accept([r EXCEPT !.cfg = body])
        ELSE IF ~r.exists THEN Reject("notfound")
        ELSE IF method = "POST" THEN
            LET nm == IF body.name = "" THEN AssignedName(body) ELSE body.name
            IN  IF HasChildNamed(r, nm) THEN Reject("conflict")
                ELSE Accept([r EXCEPT !.children = Append(@, [body EXCEPT !.name = nm])])
        ELSE IF ~HasChildNamed(r, name) THEN Reject("notfound")
        ELSE IF method = "PUT" THEN
            Accept([r EXCEPT !.children =
                      [i \in 1..Len(@) |->
                          IF @[i].name = name THEN [body EXCEPT !.name = name] ELSE @[i]]])
        ELSE Accept([r EXCEPT !.children = RemoveNamed(@, name)])

\* write(method, path, versionToken, body): a write carrying a version
\* other than the current one is rejected; an accepted write advances
\* the version.  POST of an existing object is a conflict; PUT or DELETE
\* of a missing one is not-found.
RemoteWrite(r, method, level, name, body, v) ==
    LET Reject(res) == [res |-> res, remote |-> r]
        Accept(rr) == [res |-> "ok", remote |-> [rr EXCEPT !.version = r.version + 1]]
    IN  IF v # r.version THEN Reject("conflict")
        ELSE IF level = "parent" THEN
            IF method = "POST"
            THEN IF r.exists THEN Reject("conflict")
                 ELSE Accept([r EXCEPT !.exists = TRUE, !.cfg = body, !.children = <<>>])
            ELSE IF ~r.exists THEN Reject("notfound")
                 ELSE Accept([r EXCEPT !.cfg = body])
        ELSE IF ~r.exists THEN Reject("notfound")
        ELSE IF method = "POST" THEN
            LET nm == IF body.name = "" THEN AssignedName(body) ELSE body.name
            IN  IF HasChildNamed(r, nm) THEN Reject("conflict")
                ELSE Accept([r EXCEPT !.children = Append(@, [body EXCEPT !.name = nm])])
        ELSE IF ~HasChildNamed(r, name) THEN Reject("notfound")
        ELSE IF method = "PUT" THEN
            Accept([r EXCEPT !.children =
                      [i \in 1..Len(@) |->
                          IF @[i].name = name THEN [body EXCEPT !.name = name] ELSE @[i]]])
        ELSE Accept([r EXCEPT !.children = RemoveNamed(@, name)])

\* ------------------------------------------------------------------------
\* Inputs: the manifests an operator applies and the remote states the
\* tool may find
\* ------------------------------------------------------------------------
Kinds == {"Backend", "Frontend", "Global", "Defaults", "Server"}

\* the kinds whose apply reconciles a parent with its children
Nested == {"Backend", "Frontend"}

ParentName == "p1"

\* servers of a manifest: as a rule only the five fields of the server
\* are written in the YAML; the last one also gives apiVersion, kind,
\* backend and parent
ServerPool ==
    { ServerConfig("s1", "a", 80, 1, FALSE, "", ""),
      ServerConfig("s1", "a", 80, 2, FALSE, "", ""),
      ServerConfig("s2", "a", 80, 1, TRUE, "", ""),
      [ServerConfig("s2", "a", 80, 1, TRUE, "b9", ParentName)
          EXCEPT !.apiVersion = "haproxyctl/v1", !.kind = "Server"] }

\* binds of a manifest (a manifest bind never carries a name)
BindPool ==
    { BindConfig("a", 80, FALSE, ""),
      BindConfig("a", 80, TRUE, ""),
      BindConfig("a", 81, FALSE, "") }

ChildPool(k) == IF k = "Backend" THEN ServerPool ELSE BindPool

\* sequences of distinct elements of S, of length at most n
SeqsUpTo(S, n) ==
    {q \in UNION {[1..l -> S] : l \in 0..n} :
        \A i, j \in 1..Len(q) : i # j => q[i] # q[j]}

\* valid parent configs: no timeout; bare milliseconds "5000"; and mode
\* tcp with the timeout "5s" and (Backend) a cookie or (Frontend) a
\* default_backend
ValidConfigs(k) ==
    { ParentConfig(ParentName, "http", <<>>, "", ""),
      ParentConfig(ParentName, "http", <<"5", "0", "0", "0">>, "", ""),
      IF k = "Backend" THEN ParentConfig(ParentName, "tcp", <<"5", "s">>, "c", "")
                       ELSE ParentConfig(ParentName, "tcp", <<"5", "s">>, "", "b") }

\* configs that Validate or toPayload refuses
InvalidConfigs ==
    { ParentConfig("", "http", <<>>, "", ""),
      ParentConfig(ParentName, "udp", <<>>, "", ""),
      ParentConfig(ParentName, "http", <<"x">>, "", "") }

\* a child without a port
BrokenChild(k) ==
    IF k = "Backend" THEN ServerConfig("s1", "a", 0, 1, FALSE, "", "")
                     ELSE BindConfig("a", 0, FALSE, "")

\* the plain config with every list of children; the other configs
\* with at most one child; and the manifests apply refuses
NestedManifests(k) ==
    LET plain == ParentConfig(ParentName, "http", <<>>, "", "")
    IN  { Manifest("haproxyctl/v1", k, plain, ch) :
            ch \in SeqsUpTo(ChildPool(k), MaxChildren) }
        \cup { Manifest("haproxyctl/v1", k, c, ch) :
                 c \in ValidConfigs(k) \ {plain}, ch \in SeqsUpTo(ChildPool(k), 1) }
        \cup { Manifest("haproxyctl/v1", k, c, <<>>) : c \in InvalidConfigs }
        \cup { Manifest("haproxyctl/v1", k, plain, <<BrokenChild(k)>>),
               Manifest("v0", k, plain, <<>>),
               Manifest("haproxyctl/v1", "Userlist", plain, <<>>) }

\* Global manifests: two settings, the kind also in lower case, and a
\* wrong apiVersion
GlobalManifests ==
    { Manifest("haproxyctl/v1", k, c, <<>>) :
        k \in {"Global", "global"}, c \in {GlobalConfig(FALSE, 0), GlobalConfig(TRUE, 100)} }
    \cup { Manifest("v0", "Global", GlobalConfig(TRUE, 100), <<>>) }

\* Defaults manifests: the section's name given, omitted, or another one
DefaultsManifests ==
    { Manifest("haproxyctl/v1", "Defaults", DefaultsConfig(n, m), <<>>) :
        n \in {"d1", "", "d2"}, m \in {"http", "tcp"} }
    \cup { Manifest("v0", "Defaults", DefaultsConfig("d1", "http"), <<>>) }

\* standalone Server manifests: the backend given as backend or as parent,
\* or not at all, or one that does not exist
ServerManifests ==
    { Manifest("haproxyctl/v1", "Server", c, <<>>) :
        c \in { ServerConfig("s1", "a", 80, 1, FALSE, ParentName, ""),
                ServerConfig("s1", "a", 80, 2, FALSE, "", ParentName),
                ServerConfig("s2", "a", 80, 1, TRUE, ParentName, ""),
                ServerConfig("s1", "a", 80, 1, FALSE, "", ""),
                ServerConfig("s1", "a", 80, 1, FALSE, "p9", "") } }
    \cup { Manifest("v0", "Server", ServerConfig("s1", "a", 80, 1, FALSE, ParentName, ""), <<>>) }

Manifests(k) ==
    CASE k \in Nested -> NestedManifests(k)
      [] k = "Global" -> GlobalManifests
      [] k = "Defaults" -> DefaultsManifests
      [] k = "Server" -> ServerManifests

\* remote states found at the start: no parent; a parent without
\* children; a parent with two children as the API reports them (ssl as
\* the enum); a parent with a child lacking a port next to a complete
\* one; (Frontend) a parent with a bind that has no name next to a named
\* one, and a parent with two binds on the same address and port
NestedInits(k) ==
    LET cfg == WireParent(ParentName, "http", 0, "", "")
        With(ch) == [exists |-> TRUE, cfg |-> cfg, children |-> ch, version |-> 1]
    IN  IF k = "Backend"
        THEN { RemoteAbsent(1), With(<<>>),
               With(<<WireChild("s1", "a", 80, 1, ""),
                      WireChild("s2", "a", 80, 1, "enabled")>>),
               With(<<WireChild("s3", "a", 80, 1, ""),
                      WireChild("s2", "a", 0, 1, "")>>) }
        ELSE { RemoteAbsent(1), With(<<>>),
               With(<<WireChild("b80", "a", 80, 0, ""),
                      WireChild("b81", "a", 81, 0, "enabled")>>),
               With(<<WireChild("b82", "a", 82, 0, ""),
                      WireChild("b0", "a", 0, 0, "")>>),
               With(<<WireChild("", "a", 81, 0, "enabled"),
                      WireChild("b82", "a", 82, 0, "")>>),
               With(<<WireChild("b80", "a", 80, 0, ""),
                      WireChild("b83", "a", 80, 0, "enabled")>>) }

\* a remote that holds the section obj and nothing else
Section(obj) == [exists |-> TRUE, cfg |-> obj, children |-> <<>>, version |-> 1]

\* Global: no section, or one of two settings.  Defaults: no section in
\* the list, or the section d1.  Server: the backend as for Backend.
RemoteInits(k) ==
    CASE k \in Nested -> NestedInits(k)
      [] k = "Global" ->
           { RemoteAbsent(1), Section(putGlobalPayload(GlobalConfig(FALSE, 0))),
             Section(putGlobalPayload(GlobalConfig(TRUE, 100))) }
      [] k = "Defaults" ->
           { RemoteAbsent(1), Section(putDefaultsPayload(DefaultsConfig("d1", "http"))) }
      [] k = "Server" -> NestedInits("Backend")

\* ------------------------------------------------------------------------
\* State
\* ------------------------------------------------------------------------
VARIABLES
    kind,        \* the kind of resource this behaviour manages
    remote,      \* the remote configuration and its version
    extWrites,   \* writes made so far by other clients
    applies,     \* invocations of apply so far
    interfered,  \* another client wrote since the current invocation began
    manifest,    \* the manifest of the current (or last) invocation
    preview,     \* outputFormat != "" || dryRun
    repeat,      \* this invocation re-applies the manifest of a successful one
    retry,       \* this invocation re-applies the manifest of one that failed after a write
    pc,          \* position of the invocation
    notFound,    \* local: the parent fetch returned 404
    rawParent,   \* local: the fetched parent object
    version,     \* local: the version fetched by the apply function
    verFid,      \* position in log of the fetch that produced version
    rawChildren, \* local: the children list fetched from the remote
    before,      \* local: the typed children fetched from the remote
    idx,         \* local: index of the creation loop over the children
    todoDel,     \* keys the delete loop of the diff has still to visit
    todoUp,      \* keys the create/update loop of the diff has still to visit
    log,         \* the remote calls of the current invocation, in order
    status,      \* "", the action of the status line, "preview" or "error"
    stdout       \* the messages the current invocation has printed on success

vars == <<kind, remote, extWrites, applies, interfered, manifest, preview, repeat, retry,
          pc,
          notFound, rawParent, version, verFid, rawChildren, before, idx,
          todoDel, todoUp, log, status, stdout>>

locals == <<notFound, rawParent, version, verFid, rawChildren, before, idx,
           todoDel, todoUp>>

\* one remote call: op is fetchOne, fetchList, fetchVersion, POST, PUT or
\* DELETE; level is "parent" or "child"; key is the identity key of the
\* child, name the name it is addressed by; fid is the position in log of
\* the version fetch whose value the call carries (0: none); res is ok,
\* notfound, conflict or error (a transport failure)
Call(op, level, key, name, fid, res) ==
    [op |-> op, level |-> level, key |-> key, name |-> name, fid |-> fid, res |-> res]

IsBackend == ToLower(manifest.kind) = "backend"

\* the manifest's children as the diff sees them
After == manifest.children

\* kind dispatch of the identity and equality rules
Key(c) == IF IsBackend THEN ServerKey(c) ELSE BindKey(c)

ConfigEqual(a, b) == IF IsBackend THEN serverConfigEqual(a, b) ELSE bindConfigEqual(a, b)

Init ==
    /\ kind \in Kinds
    /\ remote \in RemoteInits(kind)
    /\ extWrites = 0
    /\ applies = 0
    /\ interfered = FALSE
    /\ manifest = Manifest("", "", ZeroConfig, <<>>)
    /\ preview = FALSE
    /\ repeat = FALSE
    /\ retry = FALSE
    /\ pc = "Start"
    /\ notFound = FALSE
    /\ rawParent = NoObject
    /\ version = 0
    /\ verFid = 0
    /\ rawChildren = <<>>
    /\ before = <<>>
    /\ idx = 0
    /\ todoDel = {}
    /\ todoUp = {}
    /\ log = <<>>
    /\ status = ""
    /\ stdout = <<>>

\* an invocation ends with an error: no status line
Abort ==
    /\ pc' = "Done"
    /\ status' = "error"
    /\ stdout' = stdout

\* ------------------------------------------------------------------------
\* Child helpers: one version fetch, then one write carrying it
\* ------------------------------------------------------------------------
\* the child another client adds
ExternalChild ==
    IF kind \in {"Backend", "Server"} THEN WireChild("s1", "a", 80, 1, "")
    ELSE WireChild("b80", "a", 80, 0, "")

\* the remote after another client has written while a helper was between
\* its version fetch and its write: the client added its child, or wrote
\* elsewhere in the configuration
OtherClientWrote(r) ==
    IF HasChildNamed(r, ExternalChild.name)
    THEN [r EXCEPT !.version = @ + 1]
    ELSE [r EXCEPT !.children = Append(@, ExternalChild), !.version = @ + 1]

\* a mutant of ChildCall: the write is sent, with version 0, even though
\* the version fetch failed
ChildCallUnstamped(parent, method, key, name, body, f) ==
    LET fid == Len(log) + 1
        fetch == Call("fetchVersion", "", <<>>, "", 0, IF f = "verr" THEN "error" ELSE "ok")
        v == IF f = "verr" THEN 0 ELSE remote.version
        out == IF parent = ParentName
               THEN RemoteWrite(remote, method, "child", name, body, v)
               ELSE [res |-> "notfound", remote |-> remote]
        res == IF f = "werr" THEN "error" ELSE out.res
        write == Call(method, "child", key, name, fid, res)
    IN  [log |-> log \o <<fetch, write>>,
         remote |-> IF res = "ok" THEN out.remote ELSE remote,
         ok |-> res = "ok"]

\* a mutant of ChildCall: the helper returns nil whatever the write did
ChildCallSilent(parent, method, key, name, body, f) ==
    LET fid == Len(log) + 1
        fetch == Call("fetchVersion", "", <<>>, "", 0, IF f = "verr" THEN "error" ELSE "ok")
        out == IF parent = ParentName
               THEN RemoteWrite(remote, method, "child", name, body, remote.version)
               ELSE [res |-> "notfound", remote |-> remote]
        res == IF f = "werr" THEN "error" ELSE out.res
        write == Call(method, "child", key, name, fid, res)
    IN  IF f = "verr"
        THEN [log |-> Append(log, fetch), remote |-> remote, ok |-> FALSE]
        ELSE [log |-> log \o <<fetch, write>>,
              remote |-> IF res = "ok" THEN out.remote ELSE remote,
              ok |-> TRUE]

\* f is what happens to the two calls: "ok", "verr" (the version fetch
\* fails), "werr" (the write fails in transit) or "raced" (another client
\* writes between the version fetch and the write).  The result is the
\* log, the remote and whether the helper returned nil.
ChildCall(parent, method, key, name, body, f) ==
    LET fid == Len(log) + 1
        fetch == Call("fetchVersion", "", <<>>, "", 0, IF f = "verr" THEN "error" ELSE "ok")
        at == IF f = "raced" THEN OtherClientWrote(remote) ELSE remote
        out == IF parent = ParentName
               THEN RemoteWrite(at, method, "child", name, body, remote.version)
               ELSE [res |-> "notfound", remote |-> at]
        res == IF f = "werr" THEN "error" ELSE out.res
        write == Call(method, "child", key, name, fid, res)
    IN  IF f = "verr"
        THEN [log |-> Append(log, fetch), remote |-> remote, ok |-> FALSE]
        ELSE [log |-> log \o <<fetch, write>>,
              remote |-> IF res = "ok" THEN out.remote ELSE at,
              ok |-> res = "ok"]

\* ServerConfig.NormalizeParent: parent defaults to backend; "" is the
\* error "server must specify parent (backend)"
NormalizeParent(server) ==
    IF server.parent = "" THEN server.backend ELSE server.parent

\* the message CreateServer prints after a successful POST
AddedMessage(server) ==
    "Server '" \o server.name \o "' added to backend '" \o NormalizeParent(server) \o "'."

\* the message DeleteServer prints after a successful DELETE
DeletedMessage(backendName, serverName) ==
    "Server '" \o serverName \o "' in backend '" \o backendName \o "' deleted successfully."

\* a helper that returned an error before making any call
NoCall == [log |-> log, remote |-> remote, ok |-> FALSE]

\* the other client's part in a step of a helper whose result is r
OtherClient(f, r) ==
    /\ f = "raced" => (extWrites < MaxExternal /\ remote.exists /\ r # NoCall)
    /\ extWrites' = IF f = "raced" THEN extWrites + 1 ELSE extWrites
    /\ interfered' = (interfered \/ f = "raced")

\* a mutant of CreateServer: posts with the version the caller fetched
CreateServerReuse(server, f) ==
    LET out == RemoteWrite(remote, "POST", "child", server.name, ServerWire(server), version)
        res == IF f = "werr" THEN "error" ELSE out.res
    IN  [log |-> Append(log, Call("POST", "child", ServerKey(server), server.name, verFid, res)),
         remote |-> IF res = "ok" THEN out.remote ELSE remote,
         ok |-> res = "ok"]

\* servers.CreateServer(server, "", false): NormalizeParent, then
\* GetConfigurationVersion, then POST backends/<parent>/servers with the
\* ServerConfig as body
CreateServer(server, f) ==
    IF NormalizeParent(server) = "" THEN NoCall
    ELSE ChildCall(NormalizeParent(server), "POST", ServerKey(server), server.name,
                   ServerWire(server), f)

\* servers.DeleteServer(backendName, serverName): GetConfigurationVersion,
\* then DELETE backends/<backend>/servers/<name>
DeleteServer(backendName, serverName, f) ==
    ChildCall(backendName, "DELETE", <<serverName>>, serverName, NoObject, f)

\* servers.UpdateServer(server): GetConfigurationVersion, then PUT
\* backends/<parent>/servers/<name>
UpdateServer(server, f) ==
    IF NormalizeParent(server) = "" THEN NoCall
    ELSE ChildCall(NormalizeParent(server), "PUT", ServerKey(server), server.name,
                   ServerPayload(server), f)

\* createBind(frontendName, bind): GetConfigurationVersion, then POST
\* frontends/<frontend>/binds with the BindConfig as body
createBind(frontendName, bind, f) ==
    ChildCall(frontendName, "POST", BindKey(bind), "", BindWire(bind), f)

\* deleteBind(frontendName, name): GetConfigurationVersion, then DELETE
\* frontends/<frontend>/binds/<name>
deleteBind(frontendName, name, f) ==
    ChildCall(frontendName, "DELETE", <<>>, name, NoObject, f)

\* updateBind(frontendName, bind): GetConfigurationVersion, then PUT
\* frontends/<frontend>/binds/<bind.Name>
updateBind(frontendName, bind, f) ==
    ChildCall(frontendName, "PUT", BindKey(bind), bind.name, bindToPayload(bind), f)

\* ------------------------------------------------------------------------
\* The diff: applyServerDiff / applyBindDiff
\* ------------------------------------------------------------------------
\* a mutant of AfterByKey: the first element with a key is the one kept
AfterByKeyFirst ==
    [k \in KeysOf(After, Key) |->
        After[CHOOSE i \in 1..Len(After) :
                 /\ Key(After[i]) = k
                 /\ \A j \in 1..(i - 1) : Key(After[j]) # k]]

\* beforeByName / beforeByKey and afterByName / afterByKey
BeforeByKey == ByKey(before, Key)

AfterByKey == ByKey(After, Key)

\* the after-entry of key k as the loop body holds it: a server gets its
\* Backend filled in when empty; a matched bind gets the name of the
\* before-entry (newB.Name = oldB.Name)
NewChild(k) ==
    LET a == AfterByKey[k]
    IN  IF IsBackend
        THEN IF a.backend = "" THEN [a EXCEPT !.backend = manifest.cfg.name] ELSE a
        ELSE IF k \in DOMAIN BeforeByKey THEN [a EXCEPT !.name = BeforeByKey[k].name] ELSE a

\* a mutant of DeleteKeys: every key of before is deleted
DeleteKeysAll == DOMAIN BeforeByKey

\* keys whose iteration of the delete loop does something: present
\* before, missing after
DeleteKeys == {k \in DOMAIN BeforeByKey : k \notin DOMAIN AfterByKey}

\* keys whose iteration of the create/update loop does something: new, or
\* matched and not equal
UpsertKeys ==
    {k \in DOMAIN AfterByKey :
        \/ k \notin DOMAIN BeforeByKey
        \/ ~ConfigEqual(BeforeByKey[k], NewChild(k))}

\* a mutant of MissingName: a bind is addressed whatever its name
MissingNameIgnored(b) == FALSE

\* applyBindDiff: oldB.Name == "" (delete) and newB.Name == "" (update);
\* applyServerDiff has no such test
MissingName(b) == ~IsBackend /\ b.name = ""

\* a mutant of DeleteLoopDone: the second loop does not wait for the first
DeleteLoopSkipped == TRUE

\* the create/update loop starts when the delete loop has ended
DeleteLoopDone == todoDel = {}

\* ------------------------------------------------------------------------
\* Actions
\* ------------------------------------------------------------------------
\* a mutant of EnvelopeOK: the apiVersion is not looked at
EnvelopeAny(m) == TRUE

\* applyFromFile: metadata.APIVersion != "haproxyctl/v1" is an error
EnvelopeOK(m) == m.apiVersion = "haproxyctl/v1"

\* ApplyBackendFromYAML before its first remote call: Validate, then the
\* preview path
BackendCase(m, pv) ==
    IF ~BackendValidate(m) THEN "error"
    ELSE IF pv THEN "preview" ELSE "CheckExists"

\* ApplyFrontendFromYAML before its first remote call
FrontendCase(m, pv) ==
    IF ~FrontendValidate(m) THEN "error"
    ELSE IF pv THEN "preview" ELSE "CheckExists"

\* applyConfig before its first remote call: no validation, the preview
\* path
ConfigCase(m, pv) == IF pv THEN "preview" ELSE "GetCurrent"

\* a mutant of ServerCase: the flags are not looked at
ServerCaseNoPreview(m, pv) ==
    IF NormalizeParent(m.cfg) = "" THEN "error" ELSE "ServerExists"

\* a mutant of ServerCase: NormalizeParent's error is ignored
ServerCaseAnyParent(m, pv) == IF pv THEN "preview" ELSE "ServerExists"

\* the Server case before its first remote call: the preview path is
\* CreateServer(s, outputFormat, dryRun), which returns after printing;
\* otherwise NormalizeParent
ServerCase(m, pv) ==
    IF pv THEN "preview"
    ELSE IF NormalizeParent(m.cfg) = "" THEN "error"
    ELSE "ServerExists"

\* where the dispatch of applyFromFile leads before any remote call:
\* "error", "preview", or the position of the first remote call
Dispatch(m, pv) ==
    IF ~EnvelopeOK(m) THEN "error"
    ELSE CASE ToLower(m.kind) = "backend" -> BackendCase(m, pv)
           [] ToLower(m.kind) = "frontend" -> FrontendCase(m, pv)
           [] ToLower(m.kind) \in {"global", "defaults"} -> ConfigCase(m, pv)
           [] ToLower(m.kind) = "server" -> ServerCase(m, pv)
           [] OTHER -> "error"

\* applyFromFile up to the first remote call: the envelope check, the
\* dispatch on the kind, Validate and the preview path of
\* ApplyBackendFromYAML / ApplyFrontendFromYAML, applyConfig and the
\* Server case
applyFromFile(m, pv) ==
    /\ pc \in {"Start", "Done"}
    /\ applies < MaxApplies
    /\ applies' = applies + 1
    /\ manifest' = m
    /\ preview' = pv
    /\ repeat' = (/\ pc = "Done"
                  /\ m = manifest
                  /\ ~pv
                  /\ status \in {"created", "configured"}
                  /\ ~interfered)
    /\ retry' = (/\ pc = "Done"
                 /\ m = manifest
                 /\ ~pv
                 /\ status = "error"
                 /\ \E i \in 1..Len(log) :
                      log[i].op \in {"POST", "PUT", "DELETE"} /\ log[i].res = "ok"
                 /\ ~interfered)
    /\ interfered' = FALSE
    /\ log' = <<>>
    /\ notFound' = FALSE
    /\ rawParent' = NoObject
    /\ version' = 0
    /\ verFid' = 0
    /\ rawChildren' = <<>>
    /\ before' = <<>>
    /\ idx' = 0
    /\ todoDel' = {}
    /\ todoUp' = {}
    /\ stdout' = <<>>
    /\ IF Dispatch(m, pv) = "error"
       THEN pc' = "Done" /\ status' = "error"
       ELSE IF Dispatch(m, pv) = "preview"
            THEN pc' = "Done" /\ status' = "preview"
            ELSE pc' = Dispatch(m, pv) /\ status' = ""
    /\ UNCHANGED <<kind, remote, extWrites>>

\* a mutant of IsNotFoundError: every error counts as a 404
IsNotFoundErrorAny(res) == res # "ok"

\* a mutant of IsNotFoundError: no error counts as a 404
IsNotFoundErrorNever(res) == FALSE

\* internal.IsNotFoundError on the result of a fetch: the error is an
\* APIError with status 404
IsNotFoundError(res) == res = "notfound"

\* internal.GetResource on the parent: found, 404 (the creation path) or
\* any other error (fatal)
CheckExists(f) ==
    /\ pc = "CheckExists"
    /\ LET res == IF f = "error" THEN "error"
                  ELSE IF remote.exists THEN "ok" ELSE "notfound"
       IN  /\ log' = Append(log, Call("fetchOne", "parent", <<>>, manifest.cfg.name, 0, res))
           /\ IF res # "ok" /\ ~IsNotFoundError(res)
              THEN Abort /\ UNCHANGED <<notFound, rawParent>>
              ELSE /\ notFound' = (res # "ok")
                   /\ rawParent' = IF res = "ok" THEN remote.cfg ELSE NoObject
                   /\ pc' = "FetchVersion"
                   /\ status' = status /\ stdout' = stdout
    /\ UNCHANGED <<kind, remote, extWrites, applies, interfered, manifest, preview, repeat, retry,
                   version, verFid, rawChildren, before, idx, todoDel, todoUp>>

\* the payload of the manifest's parent
Payload == IF IsBackend THEN toPayload(manifest.cfg) ELSE ToPayload(manifest.cfg)

\* internal.GetConfigurationVersion right after the parent fetch, then
\* the conversion of the manifest to its payload (fatal on a bad timeout)
FetchVersion(f) ==
    /\ pc = "FetchVersion"
    /\ log' = Append(log, Call("fetchVersion", "", <<>>, "", 0, f))
    /\ IF f = "error"
       THEN Abort /\ UNCHANGED <<version, verFid>>
       ELSE /\ version' = remote.version
            /\ verFid' = Len(log) + 1
            /\ IF PayloadFatal(manifest.cfg)
               THEN Abort
               ELSE /\ pc' = IF notFound THEN "Create" ELSE "CompareState"
                    /\ status' = status /\ stdout' = stdout
    /\ UNCHANGED <<kind, remote, extWrites, applies, interfered, manifest, preview, repeat, retry,
                   notFound, rawParent, rawChildren, before, idx, todoDel, todoUp>>

\* the creation path: POST the parent with the version fetched above
Create(f) ==
    /\ pc = "Create"
    /\ LET out == RemoteWrite(remote, "POST", "parent", manifest.cfg.name, Payload, version)
           res == IF f = "werr" THEN "error" ELSE out.res
       IN  /\ log' = Append(log, Call("POST", "parent", <<>>, manifest.cfg.name, verFid, res))
           /\ IF res = "ok"
              THEN /\ remote' = out.remote
                   /\ pc' = "CreateChildren"
                   /\ idx' = 1
                   /\ status' = status /\ stdout' = stdout
              ELSE Abort /\ UNCHANGED <<remote, idx>>
    /\ UNCHANGED <<kind, extWrites, applies, interfered, manifest, preview, repeat, retry,
                   notFound, rawParent, version, verFid, rawChildren, before,
                   todoDel, todoUp>>

\* a mutant of NextChild: the loop runs from the last child to the first
NextChildReversed == manifest.children[Len(manifest.children) + 1 - idx]

\* the child the creation loop (for _, srv := range manifest.Servers) is at
NextChild == manifest.children[idx]

\* one iteration of the creation loop: the next child of the manifest is
\* created unconditionally
CreateChild(f) ==
    /\ pc = "CreateChildren"
    /\ idx <= Len(manifest.children)
    /\ LET c == NextChild
           r == IF IsBackend
                THEN CreateServer([c EXCEPT !.backend = manifest.cfg.name], f)
                ELSE createBind(manifest.cfg.name, c, f)
       IN  /\ OtherClient(f, r)
           /\ log' = r.log
           /\ remote' = r.remote
           /\ IF r.ok
              THEN /\ idx' = idx + 1
                   /\ stdout' = IF IsBackend
                                THEN Append(stdout, AddedMessage([c EXCEPT !.backend = manifest.cfg.name]))
                                ELSE stdout
                   /\ UNCHANGED <<pc, status>>
              ELSE Abort /\ UNCHANGED idx
    /\ UNCHANGED <<kind, applies, manifest, preview, repeat, retry,
                   notFound, rawParent, version, verFid, rawChildren, before,
                   todoDel, todoUp>>

\* the typed view of the fetched parent
Current(raw) ==
    IF IsBackend THEN populateBackendConfigFromMap(raw)
    ELSE populateFrontendConfigFromMap(raw)

\* the typed, filtered view of the fetched children
BeforeOf(raw) ==
    IF IsBackend THEN BeforeServers(manifest.cfg.name, raw)
    ELSE BeforeBinds(raw)

\* the no-op test: reflect.DeepEqual on the parent configs and
\* serversEqualByName / bindsEqualByKey on the children
NoOp(cur, bef) ==
    /\ cur = manifest.cfg
    /\ IF IsBackend THEN serversEqualByName(bef, After) ELSE bindsEqualByKey(bef, After)

\* the comparison path: GetResourceList on the children (404 is an empty
\* list, any other error is fatal), the typed view, and the no-op test
CompareState(f) ==
    /\ pc = "CompareState"
    /\ LET res == IF f = "error" THEN "error"
                  ELSE IF remote.exists THEN "ok" ELSE "notfound"
           raw == IF res = "ok" THEN remote.children ELSE <<>>
           bef == BeforeOf(raw)
       IN  /\ log' = Append(log, Call("fetchList", "child", <<>>, manifest.cfg.name, 0, res))
           /\ IF res # "ok" /\ ~IsNotFoundError(res)
              THEN Abort /\ UNCHANGED <<rawChildren, before>>
              ELSE /\ rawChildren' = raw
                   /\ before' = bef
                   /\ pc' = IF NoOp(Current(rawParent), bef) THEN "Unchanged" ELSE "Replace"
                   /\ status' = status /\ stdout' = stdout
    /\ UNCHANGED <<kind, remote, extWrites, applies, interfered, manifest, preview, repeat, retry,
                   notFound, rawParent, version, verFid, idx, todoDel, todoUp>>

\* PUT the parent with the version fetched before the comparison, then
\* enter the diff of the children
Replace(f) ==
    /\ pc = "Replace"
    /\ LET out == RemoteWrite(remote, "PUT", "parent", manifest.cfg.name, Payload, version)
           res == IF f = "werr" THEN "error" ELSE out.res
       IN  /\ log' = Append(log, Call("PUT", "parent", <<>>, manifest.cfg.name, verFid, res))
           /\ IF res = "ok"
              THEN /\ remote' = out.remote
                   /\ pc' = "ReconcileChildren"
                   /\ todoDel' = DeleteKeys
                   /\ todoUp' = UpsertKeys
                   /\ status' = status /\ stdout' = stdout
              ELSE Abort /\ UNCHANGED <<remote, todoDel, todoUp>>
    /\ UNCHANGED <<kind, extWrites, applies, interfered, manifest, preview, repeat, retry,
                   notFound, rawParent, version, verFid, rawChildren, before, idx>>

\* one iteration of the delete loop, in the map's (arbitrary) order: the
\* child is deleted by name; a bind without a name is skipped with a
\* warning
DiffDelete(k, f) ==
    /\ pc = "ReconcileChildren"
    /\ k \in todoDel
    /\ LET old == BeforeByKey[k]
           skip == MissingName(old)
           r == IF IsBackend THEN DeleteServer(manifest.cfg.name, old.name, f)
                ELSE deleteBind(manifest.cfg.name, old.name, f)
       IN  IF skip
           THEN /\ f = "ok"
                /\ UNCHANGED <<extWrites, interfered>>
                /\ todoDel' = todoDel \ {k}
                /\ UNCHANGED <<log, remote, pc, status, stdout>>
           ELSE /\ OtherClient(f, r)
                /\ log' = r.log
                /\ remote' = r.remote
                /\ IF r.ok
                   THEN /\ todoDel' = todoDel \ {k}
                        /\ stdout' = IF IsBackend
                                     THEN Append(stdout, DeletedMessage(manifest.cfg.name, old.name))
                                     ELSE stdout
                        /\ UNCHANGED <<pc, status>>
                   ELSE Abort /\ UNCHANGED todoDel
    /\ UNCHANGED <<kind, applies, manifest, preview, repeat, retry,
                   notFound, rawParent, version, verFid, rawChildren, before, idx,
                   todoUp>>

\* one iteration of the create/update loop, in the map's (arbitrary)
\* order: a new child is created, a matched unequal one updated; a bind
\* to update whose before-entry has no name is skipped with a warning
DiffUpsert(k, f) ==
    /\ pc = "ReconcileChildren"
    /\ DeleteLoopDone
    /\ k \in todoUp
    /\ LET new == NewChild(k)
           existed == k \in DOMAIN BeforeByKey
           skip == existed /\ MissingName(new)
           r == IF IsBackend
                THEN IF existed THEN UpdateServer(new, f) ELSE CreateServer(new, f)
                ELSE IF existed THEN updateBind(manifest.cfg.name, new, f)
                     ELSE createBind(manifest.cfg.name, new, f)
       IN  IF skip
           THEN /\ f = "ok"
                /\ UNCHANGED <<extWrites, interfered>>
                /\ todoUp' = todoUp \ {k}
                /\ UNCHANGED <<log, remote, pc, status, stdout>>
           ELSE /\ OtherClient(f, r)
                /\ log' = r.log
                /\ remote' = r.remote
                /\ IF r.ok
                   THEN /\ todoUp' = todoUp \ {k}
                        /\ stdout' = IF IsBackend /\ ~existed
                                     THEN Append(stdout, AddedMessage(new))
                                     ELSE stdout
                        /\ UNCHANGED <<pc, status>>
                   ELSE Abort /\ UNCHANGED todoUp
    /\ UNCHANGED <<kind, applies, manifest, preview, repeat, retry,
                   notFound, rawParent, version, verFid, rawChildren, before, idx,
                   todoDel>>

\* ------------------------------------------------------------------------
\* Actions of applyConfig (Global, Defaults) and of the Server case
\* ------------------------------------------------------------------------
IsGlobal == ToLower(manifest.kind) = "global"

\* currentName of ApplyDefaultsFromYAML: the name of the fetched section
CurrentName == IF rawParent = NoObject THEN "" ELSE rawParent.name

\* getCurrent: GetResource on global, GetResourceList on defaults (the
\* first section of the list); a missing section is the zero config, any
\* other error is fatal.  Then reflect.DeepEqual(current, manifest).
GetCurrent(f) ==
    /\ pc = "GetCurrent"
    /\ LET res == IF f = "error" THEN "error"
                  ELSE IF remote.exists \/ ~IsGlobal THEN "ok" ELSE "notfound"
           obj == IF res = "ok" /\ remote.exists THEN remote.cfg ELSE NoObject
           current == IF obj = NoObject THEN ZeroSection(ToLower(manifest.kind))
                      ELSE IF IsGlobal THEN mapGlobalFromAPI(obj)
                      ELSE mapDefaultsFromAPI(obj)
       IN  /\ log' = Append(log, Call(IF IsGlobal THEN "fetchOne" ELSE "fetchList",
                                      "parent", <<>>, ToLower(manifest.kind), 0, res))
           /\ IF res # "ok" /\ ~IsNotFoundError(res)
              THEN Abort /\ UNCHANGED rawParent
              ELSE /\ rawParent' = obj
                   /\ pc' = IF current = manifest THEN "Unchanged" ELSE "ConfigVersion"
                   /\ status' = status /\ stdout' = stdout
    /\ UNCHANGED <<kind, remote, extWrites, applies, interfered, manifest, preview, repeat, retry,
                   notFound, version, verFid, rawChildren, before, idx, todoDel, todoUp>>

\* applyConfig: GetConfigurationVersion once the section differs
ConfigVersion(f) ==
    /\ pc = "ConfigVersion"
    /\ log' = Append(log, Call("fetchVersion", "", <<>>, "", 0, f))
    /\ IF f = "error"
       THEN Abort /\ UNCHANGED <<version, verFid>>
       ELSE /\ version' = remote.version
            /\ verFid' = Len(log) + 1
            /\ pc' = "PutConfig"
            /\ status' = status /\ stdout' = stdout
    /\ UNCHANGED <<kind, remote, extWrites, applies, interfered, manifest, preview, repeat, retry,
                   notFound, rawParent, rawChildren, before, idx, todoDel, todoUp>>

\* the name putDefaults addresses: the manifest's, or currentName
PutName == IF manifest.cfg.name = "" THEN CurrentName ELSE manifest.cfg.name

\* putFn: putGlobal, or putDefaults with the name defaulting to
\* currentName (an empty name is an error before any call)
PutConfig(f) ==
    /\ pc = "PutConfig"
    /\ IF ~IsGlobal /\ PutName = ""
       THEN f = "ok" /\ Abort /\ UNCHANGED <<log, remote>>
       ELSE LET body == IF IsGlobal THEN putGlobalPayload(manifest.cfg)
                        ELSE putDefaultsPayload([manifest.cfg EXCEPT !.name = PutName])
                out == IF ~IsGlobal /\ remote.exists /\ remote.cfg.name # PutName
                       THEN [res |-> "notfound", remote |-> remote]
                       ELSE RemoteWrite(remote, "PUT", "parent", "", body, version)
                res == IF f = "werr" THEN "error" ELSE out.res
            IN  /\ log' = Append(log, Call("PUT", "parent", <<>>,
                                           IF IsGlobal THEN "global" ELSE PutName, verFid, res))
                /\ IF res = "ok"
                   THEN remote' = out.remote /\ pc' = "Configured" /\ status' = status /\ stdout' = stdout
                   ELSE Abort /\ UNCHANGED remote
    /\ UNCHANGED <<kind, extWrites, applies, interfered, manifest, preview, repeat, retry,
                   locals>>

\* the Server case: GetResource on backends/<parent>/servers/<name>
\* decides between update and create; any error but 404 is fatal
ServerExists(f) ==
    /\ pc = "ServerExists"
    /\ LET s == manifest.cfg
           res == IF f = "error" THEN "error"
                  ELSE IF /\ NormalizeParent(s) = ParentName
                          /\ remote.exists
                          /\ HasChildNamed(remote, s.name)
                       THEN "ok" ELSE "notfound"
       IN  /\ log' = Append(log, Call("fetchOne", "child", ServerKey(s), s.name, 0, res))
           /\ IF res # "ok" /\ ~IsNotFoundError(res)
              THEN Abort /\ UNCHANGED notFound
              ELSE notFound' = (res # "ok") /\ pc' = "ServerWrite" /\ status' = status /\ stdout' = stdout
    /\ UNCHANGED <<kind, remote, extWrites, applies, interfered, manifest, preview, repeat, retry,
                   rawParent, version, verFid, rawChildren, before, idx, todoDel, todoUp>>

\* the Server case: servers.UpdateServer(s) when the server exists,
\* servers.CreateServer(s, "", false) when it does not
ServerWrite(f) ==
    /\ pc = "ServerWrite"
    /\ LET s == [manifest.cfg EXCEPT !.parent = NormalizeParent(manifest.cfg)]
           r == IF notFound THEN CreateServer(s, f) ELSE UpdateServer(s, f)
       IN  /\ OtherClient(f, r)
           /\ log' = r.log
           /\ remote' = r.remote
           /\ IF r.ok
              THEN /\ pc' = "Done"
                   /\ status' = IF notFound THEN "added" ELSE "updated"
                   /\ stdout' = IF notFound THEN Append(stdout, AddedMessage(s)) ELSE stdout
              ELSE Abort
    /\ UNCHANGED <<kind, applies, manifest, preview, repeat, retry,
                   locals>>

\* the name the apply functions pass to PrintStatus: the manifest's name,
\* or "config" for a section
StatusName == IF kind \in Nested THEN manifest.cfg.name ELSE "config"

\* internal.PrintStatus(kind, name, action) as the last statement of a
\* successful apply: the status line goes to stdout
PrintStatus ==
    /\ \/ pc = "Unchanged" /\ status' = "unchanged"
       \/ pc = "Configured" /\ status' = "configured"
       \/ /\ pc = "CreateChildren"
          /\ idx > Len(manifest.children)
          /\ status' = "created"
       \/ /\ pc = "ReconcileChildren"
          /\ todoDel = {}
          /\ todoUp = {}
          /\ status' = "configured"
    /\ stdout' = Append(stdout, StatusLine(kind, StatusName, status'))
    /\ pc' = "Done"
    /\ UNCHANGED <<kind, remote, extWrites, applies, interfered, manifest, preview, repeat, retry,
                   locals, log>>

\* another client writes to the same remote while an invocation runs: it
\* deletes the parent, adds a child or (next to a section) writes
\* elsewhere in the configuration
ExternalWrite ==
    /\ extWrites < MaxExternal
    /\ pc \notin {"Start", "Done"}
    /\ remote.exists
    /\ \/ remote' = RemoteAbsent(remote.version + 1)
       \/ /\ kind \in Nested \cup {"Server"}
          /\ ~HasChildNamed(remote, ExternalChild.name)
          /\ remote' = [remote EXCEPT !.children = Append(@, ExternalChild),
                                      !.version = @ + 1]
       \/ /\ kind \in {"Global", "Defaults"}
          /\ remote' = [remote EXCEPT !.version = @ + 1]
    /\ extWrites' = extWrites + 1
    /\ interfered' = TRUE
    /\ UNCHANGED <<kind, applies, manifest, preview, repeat, retry, pc, locals, log, status, stdout>>

\* the operator applies a manifest and may apply the same one again
ManifestChoices ==
    IF pc = "Start" THEN Manifests(kind)
    ELSE IF pc = "Done" THEN {manifest}
    ELSE {}

Outcomes == {"ok", "verr", "werr"}

\* what can happen to a helper's two calls
ChildOutcomes == Outcomes \cup {"raced"}

Next ==
    \/ \E m \in ManifestChoices, pv \in BOOLEAN : applyFromFile(m, pv)
    \/ \E f \in {"ok", "error"} : CheckExists(f)
    \/ \E f \in {"ok", "error"} : FetchVersion(f)
    \/ \E f \in {"ok", "werr"} : Create(f)
    \/ \E f \in ChildOutcomes : CreateChild(f)
    \/ \E f \in {"ok", "error"} : CompareState(f)
    \/ \E f \in {"ok", "werr"} : Replace(f)
    \/ \E k \in todoDel, f \in ChildOutcomes : DiffDelete(k, f)
    \/ \E k \in todoUp, f \in ChildOutcomes : DiffUpsert(k, f)
    \/ \E f \in {"ok", "error"} : GetCurrent(f)
    \/ \E f \in {"ok", "error"} : ConfigVersion(f)
    \/ \E f \in {"ok", "werr"} : PutConfig(f)
    \/ \E f \in {"ok", "error"} : ServerExists(f)
    \/ \E f \in ChildOutcomes : ServerWrite(f)
    \/ PrintStatus
    \/ ExternalWrite

Spec == Init /\ [][Next]_vars

\* ------------------------------------------------------------------------
\* The timeout conversions on their own
\* ------------------------------------------------------------------------
\* A parent object read from the API is turned into a config (the timeout
\* through FormatMillisAsDuration), and a config into the payload of a
\* write (the timeout through ParseDurationToMillis).  rawParent is the
\* object read, manifest.cfg the config, remote.cfg the payload produced;
\* pc is Fetched (an object is given), Loaded (a config is given),
\* Populated, Encoded or Fatal (log.Fatalf ended the process).

\* the count of milliseconds k away from x (x is not negative)
Shift(x, k) ==
    IF x.ms + k < 0 THEN GoInt(FALSE, x.h - 1, x.ms + k + 3600000)
    ELSE GoInt(FALSE, x.h + ((x.ms + k) \div 3600000), (x.ms + k) % 3600000)

\* the counts where the text of a duration changes its shape: 0; a second,
\* a minute and an hour; 25h1m1.001s; the largest count whose nanoseconds
\* fit 63 bits; the largest whose nanoseconds fit 64 bits
Landmarks ==
    { Millis(0), Millis(1000), Millis(60000), Millis(3600000), Millis(90061001),
      GoInt(FALSE, 2562047, 2836854), GoInt(FALSE, 5124095, 2073709) }

\* the counts within MaxStep of a landmark, from 0 to 2^64 nanoseconds
MillisInputs ==
    { x \in { Shift(l, k) : l \in Landmarks, k \in (0 - MaxStep)..MaxStep } :
        /\ x.h >= 0
        /\ MagLeq(Dur(TRUE, FALSE, x.h, x.ms, 0), Dur(TRUE, FALSE, 5124095, 2073709, 0)) }

TextChars == {"0", "1", "5", ".", "-", "+", " ", "h", "m", "s", "u", "x"}

\* the timeout texts: every text of at most MaxText characters, and the
\* texts of the documentation
TextInputs ==
    UNION { [1..n -> TextChars] : n \in 0..MaxText }
    \cup { <<"3", "0", "s">>, <<"1", "5", "0", "0", "m", "s">>, <<"5", "0", "0", "0">>,
           <<"n", "o", "t", "-", "a", "-", "d", "u", "r", "a", "t", "i", "o", "n">> }

ConvInit ==
    /\ kind \in Nested
    /\ remote = RemoteAbsent(1)
    /\ \/ /\ pc = "Fetched"
          /\ rawParent \in { WireObject(ParentName, "http", ms, "", "") : ms \in MillisInputs }
          /\ manifest = Manifest("", "", ZeroConfig, <<>>)
       \/ /\ pc = "Loaded"
          /\ rawParent = NoObject
          /\ manifest \in { Manifest("haproxyctl/v1", kind,
                                     ParentConfig(ParentName, "http", txt, "", ""), <<>>) :
                              txt \in TextInputs }
    /\ extWrites = 0
    /\ applies = 0
    /\ interfered = FALSE
    /\ preview = FALSE
    /\ repeat = FALSE
    /\ retry = FALSE
    /\ notFound = FALSE
    /\ version = 0
    /\ verFid = 0
    /\ rawChildren = <<>>
    /\ before = <<>>
    /\ idx = 0
    /\ todoDel = {}
    /\ todoUp = {}
    /\ log = <<>>
    /\ status = ""
    /\ stdout = <<>>

\* populateBackendConfigFromMap / populateFrontendConfigFromMap on the
\* object read
Populate ==
    /\ pc = "Fetched"
    /\ manifest' = Manifest("haproxyctl/v1", kind,
                            IF kind = "Backend"
                            THEN populateBackendConfigFromMap(rawParent)
                            ELSE populateFrontendConfigFromMap(rawParent), <<>>)
    /\ pc' = "Populated"
    /\ UNCHANGED <<kind, remote, rawParent, extWrites, applies, interfered, preview,
                   repeat, retry, notFound, version, verFid, rawChildren, before, idx,
                   todoDel, todoUp, log, status, stdout>>

\* toPayload / ToPayload on the config: the payload, or log.Fatalf
Encode ==
    /\ pc \in {"Loaded", "Populated"}
    /\ IF PayloadFatal(manifest.cfg)
       THEN pc' = "Fatal" /\ remote' = remote
       ELSE /\ pc' = "Encoded"
            /\ remote' = [remote EXCEPT !.cfg = IF kind = "Backend"
                                                  THEN toPayload(manifest.cfg)
                                                  ELSE ToPayload(manifest.cfg)]
    /\ UNCHANGED <<kind, manifest, rawParent, extWrites, applies, interfered, preview,
                   repeat, retry, notFound, version, verFid, rawChildren, before, idx,
                   todoDel, todoUp, log, status, stdout>>

ConvNext == Populate \/ Encode

Conversions == ConvInit /\ [][ConvNext]_vars

\* ------------------------------------------------------------------------
\* Properties: vocabulary
\* ------------------------------------------------------------------------
IsWrite(c) == c.op \in {"POST", "PUT", "DELETE"}

\* the mutating calls of the current invocation, in order
Writes == SelectSeq(log, IsWrite)

\* the operations of the current invocation, in order
Ops == [i \in 1..Len(log) |-> log[i].op]

\* positions in log of the child calls with operation op
ChildCalls(op) == {i \in 1..Len(log) : log[i].level = "child" /\ log[i].op = op}

\* no call of the current invocation failed in transit
NoTransportError == \A i \in 1..Len(log) : log[i].res # "error"

\* the children list has been fetched by the current invocation
Fetched == \E i \in 1..Len(log) : log[i].op = "fetchList" /\ log[i].res # "error"

\* two children have the same identity: servers by name, binds by
\* address and port
SameKey(a, b) ==
    IF kind = "Backend" THEN a.name = b.name
    ELSE a.address = b.address /\ a.port = b.port

\* two children agree on the fields the API manages
SameFields(a, b) ==
    /\ a.address = b.address
    /\ a.port = b.port
    /\ a.ssl = b.ssl
    /\ kind = "Backend" => (a.name = b.name /\ a.weight = b.weight)

UniqueKeys(seq) ==
    \A i, j \in 1..Len(seq) : i # j => ~SameKey(seq[i], seq[j])

\* the typed view of a list of JSON children, nothing filtered out
TypedOf(raw) ==
    [i \in 1..Len(raw) |->
        IF kind = "Backend" THEN mapServerFromAPI(manifest.cfg.name, raw[i])
        ELSE mapBindFromAPI(raw[i])]

\* every child of the manifest has, in seq, a child of the same identity
\* and fields, and seq has no other children
MatchesManifest(seq) ==
    /\ Len(seq) = Len(After)
    /\ \A i \in 1..Len(After) :
         \E j \in 1..Len(seq) :
           /\ SameKey(seq[j], After[i])
           /\ \A l \in (j + 1)..Len(seq) : ~SameKey(seq[l], After[i])
           /\ SameFields(seq[j], After[i])

\* ------------------------------------------------------------------------
\* C1
\* ------------------------------------------------------------------------
\* C1: when the typed view of the fetched parent is deep-equal to the
\* manifest's parent config and the fetched children equal the manifest's
\* children matched by identity key, the invocation issues no POST, PUT or
\* DELETE and ends reporting "unchanged".
C1_NoOpIssuesNoWrites ==
    (/\ kind \in Nested
     /\ Fetched
     /\ Current(rawParent) = manifest.cfg
     /\ MatchesManifest(before))
    => /\ Writes = <<>>
       /\ pc \in {"Unchanged", "Done"}
       /\ pc = "Done" => status = "unchanged"

\* C1 witness: a Backend with two servers was found equal and reported
\* unchanged
C1_Witness ==
    /\ pc = "Done"
    /\ status = "unchanged"
    /\ kind = "Backend"
    /\ Len(After) = 2
    /\ Writes = <<>>

\* ------------------------------------------------------------------------
\* C2
\* ------------------------------------------------------------------------
\* C2 (as claimed): on the unchanged path the calls are exactly fetchOne
\* then fetchList, with no fetchVersion.
C2_UnchangedFetchesNoVersion ==
    (kind \in Nested /\ status = "unchanged") => Ops = <<"fetchOne", "fetchList">>

\* ------------------------------------------------------------------------
\* C3
\* ------------------------------------------------------------------------
\* C3 (as claimed): a second apply of the manifest of a successful apply,
\* with no other writer and no failed call, reports "unchanged" and
\* issues no write.
C3_SecondApplyUnchanged ==
    (kind \in Nested /\ repeat /\ pc = "Done" /\ ~interfered /\ NoTransportError)
    => (status = "unchanged" /\ Writes = <<>>)

\* ------------------------------------------------------------------------
\* C4
\* ------------------------------------------------------------------------
\* C4: every mutating call of an invocation carries the value of a version
\* fetch that succeeded earlier in the invocation, no two mutating calls
\* carry the value of the same fetch, and an invocation that reports
\* "created" for a manifest with n children has made n + 1 version
\* fetches.
C4_VersionNeverReused ==
    /\ \A i \in 1..Len(log) :
         IsWrite(log[i]) =>
           /\ log[i].fid \in 1..(i - 1)
           /\ log[log[i].fid].op = "fetchVersion"
           /\ log[log[i].fid].res = "ok"
    /\ \A i, j \in 1..Len(log) :
         (i < j /\ IsWrite(log[i]) /\ IsWrite(log[j])) => log[i].fid # log[j].fid
    /\ status = "created" =>
         Cardinality({i \in 1..Len(log) : log[i].op = "fetchVersion"})
           = Len(manifest.children) + 1

\* C4 witness: a parent was created with two children, by three writes
C4_Witness ==
    /\ status = "created"
    /\ Len(manifest.children) = 2
    /\ Len(Writes) = 3

\* ------------------------------------------------------------------------
\* C5
\* ------------------------------------------------------------------------
\* C5 (as claimed): after an apply that reports created or configured,
\* with unique identity keys in the manifest and in the remote, every
\* remote bind named and no other writer, the remote children are exactly
\* the manifest's children by identity key, with the manifest's field
\* values.
C5_ApplyConverges ==
    (/\ kind \in Nested
     /\ pc = "Done"
     /\ status \in {"created", "configured"}
     /\ ~interfered
     /\ UniqueKeys(After)
     /\ UniqueKeys(TypedOf(rawChildren))
     /\ kind = "Frontend" => \A i \in 1..Len(rawChildren) : rawChildren[i].name # "")
    => MatchesManifest(TypedOf(remote.children))

\* ------------------------------------------------------------------------
\* C6
\* ------------------------------------------------------------------------
\* the identity keys of the children the diff created, updated, deleted
CreatedKeys == {log[i].key : i \in ChildCalls("POST")}

UpdatedKeys == {log[i].key : i \in ChildCalls("PUT")}

DeletedKeys ==
    {Key(before[j]) : j \in {j \in 1..Len(before) :
        \E i \in ChildCalls("DELETE") : log[i].name = before[j].name}}

\* the identity keys matched in before and after with equal fields
EqualKeys ==
    {Key(After[i]) : i \in {i \in 1..Len(After) :
        \E j \in 1..Len(before) :
            SameKey(before[j], After[i]) /\ SameFields(before[j], After[i])}}

\* the three sets are pairwise disjoint and the counts add up
DiffIsPartition ==
    /\ CreatedKeys \cap UpdatedKeys = {}
    /\ CreatedKeys \cap DeletedKeys = {}
    /\ UpdatedKeys \cap DeletedKeys = {}
    /\ Cardinality(CreatedKeys) + Cardinality(UpdatedKeys) + Cardinality(EqualKeys)
         = Len(After)
    /\ Cardinality(DeletedKeys) + Cardinality(UpdatedKeys) + Cardinality(EqualKeys)
         = Len(before)

\* the diff of the current invocation ran to its end, on collections with
\* unique identity keys
DiffRan ==
    /\ kind \in Nested
    /\ status = "configured"
    /\ UniqueKeys(before)
    /\ UniqueKeys(After)

\* C6 (as claimed): for before and after with unique identity keys, the
\* created, updated and deleted children are pairwise disjoint and
\* |create| + |update| + |equal| = |after|, |delete| + |update| + |equal|
\* = |before|.
C6_DiffPartitionUnconditional == DiffRan => DiffIsPartition

\* C6 (amended): the same, when every child of before has a wire name.
C6_DiffPartitionNamed ==
    (DiffRan /\ \A j \in 1..Len(before) : kind = "Frontend" => before[j].name # "")
    => DiffIsPartition

\* C6 witness: a diff that deleted one child and updated another
C6_Witness ==
    /\ DiffRan
    /\ DeletedKeys # {}
    /\ UpdatedKeys # {}

\* ------------------------------------------------------------------------
\* C7
\* ------------------------------------------------------------------------
\* what a call is: its operation, its level and the identity key it is for
Shape(c) == <<c.op, c.level, c.key>>

\* the identity key of a child of the manifest
ManifestKey(c) == IF kind = "Backend" THEN <<c.name>> ELSE <<c.address, c.port>>

\* the calls of the creation path for the manifest: fetchOne, fetchVersion,
\* POST parent, then per child in manifest order a version fetch and a POST
CreationCalls ==
    [i \in 1..(3 + 2 * Len(manifest.children)) |->
        IF i = 1 THEN <<"fetchOne", "parent", <<>>>>
        ELSE IF i = 3 THEN <<"POST", "parent", <<>>>>
        ELSE IF i % 2 = 0 THEN <<"fetchVersion", "", <<>>>>
        ELSE <<"POST", "child", ManifestKey(manifest.children[(i - 3) \div 2])>>]

\* C7: when the parent fetch returns not-found, the calls are, in order,
\* fetchOne, fetchVersion, POST parent, then one POST per child in manifest
\* order (each after its own version fetch, with no fetch of the children
\* list), and "created" is reported exactly when all of them succeeded.
C7_CreationPathOrder ==
    (kind \in Nested /\ log # <<>> /\ log[1].op = "fetchOne" /\ log[1].res = "notfound")
    => /\ Len(log) <= Len(CreationCalls)
       /\ \A i \in 1..Len(log) : Shape(log[i]) = CreationCalls[i]
       /\ status = "created"
            <=> /\ pc = "Done"
                /\ Len(log) = Len(CreationCalls)
                /\ \A i \in 2..Len(log) : log[i].res = "ok"

\* C7 witness: a parent created with two children of different keys
C7_Witness ==
    /\ status = "created"
    /\ Len(manifest.children) = 2
    /\ ManifestKey(manifest.children[1]) # ManifestKey(manifest.children[2])
    /\ Len(log) = 7

\* ------------------------------------------------------------------------
\* C8
\* ------------------------------------------------------------------------
\* C8 (as claimed): on the comparison path the calls begin fetchOne,
\* fetchList, fetchVersion, PUT parent, so that the version the PUT
\* carries was read by the call right before it.
C8_ComparisonPathOrder ==
    (kind \in Nested /\ status = "configured")
    => /\ Len(log) >= 4
       /\ SubSeq(Ops, 1, 4) = <<"fetchOne", "fetchList", "fetchVersion", "PUT">>
       /\ log[4].fid = 3

\* ------------------------------------------------------------------------
\* C9
\* ------------------------------------------------------------------------
\* a fetched child that has a name, an address and a non-zero port
Addressable(c) == c.name # "" /\ c.address # "" /\ c.port # 0

\* the names the DELETE calls of the invocation are addressed to
DeletedNames == {log[i].name : i \in ChildCalls("DELETE")}

\* an apply of a manifest without children ended with a status line, the
\* remote parent having children
EmptiedParent ==
    /\ kind \in Nested
    /\ pc = "Done"
    /\ status \in {"unchanged", "configured"}
    /\ After = <<>>
    /\ rawChildren # <<>>

\* C9 (as claimed): when the manifest has no children and the remote
\* parent has some, there is exactly one DELETE per remote child,
\* addressed by its name, and no child POST or PUT.
C9_OneDeletePerRemoteChild ==
    EmptiedParent
    => /\ Cardinality(ChildCalls("DELETE")) = Len(rawChildren)
       /\ DeletedNames = {rawChildren[i].name : i \in 1..Len(rawChildren)}
       /\ ChildCalls("POST") = {}
       /\ ChildCalls("PUT") = {}

\* C9 (amended): when the manifest has no children and the remote
\* children have unique identity keys, there is exactly one DELETE per
\* remote child that has a name, an address and a non-zero port, addressed
\* by its name, and no child POST or PUT.
C9_OneDeletePerAddressableChild ==
    (EmptiedParent /\ UniqueKeys(TypedOf(rawChildren)))
    => /\ Cardinality(ChildCalls("DELETE"))
            = Cardinality({i \in 1..Len(rawChildren) : Addressable(rawChildren[i])})
       /\ DeletedNames
            = {rawChildren[i].name :
                 i \in {i \in 1..Len(rawChildren) : Addressable(rawChildren[i])}}
       /\ ChildCalls("POST") = {}
       /\ ChildCalls("PUT") = {}

\* C9 witness: of two remote servers, the one with a port was deleted and
\* the one without was left
C9_Witness ==
    /\ EmptiedParent
    /\ kind = "Backend"
    /\ Len(rawChildren) = 2
    /\ Cardinality(ChildCalls("DELETE")) = 1

\* ------------------------------------------------------------------------
\* C10
\* ------------------------------------------------------------------------
\* the identity keys of a collection
KeySet(seq) == {Key(seq[i]) : i \in 1..Len(seq)}

\* C10: no DELETE of a child follows a POST or PUT of a child; nothing is
\* fetched again once the parent has been written; and every child call
\* is the one the 'before' collection fetched at the start asks for: a
\* POST for a key of the manifest absent from before, a PUT for a key of
\* both addressed by the name in before, a DELETE for a name of before
\* whose key the manifest lacks.
C10_DeletesFirstFromOneBefore ==
    kind \in Nested =>
    /\ \A i, j \in 1..Len(log) :
         (/\ i < j
          /\ log[i].level = "child" /\ log[i].op \in {"POST", "PUT"}
          /\ log[j].level = "child")
         => log[j].op # "DELETE"
    /\ \A i, j \in 1..Len(log) :
         (i < j /\ log[i].level = "parent" /\ IsWrite(log[i]))
         => log[j].op \notin {"fetchOne", "fetchList"}
    /\ \A i \in ChildCalls("POST") :
         log[i].key \in KeySet(After) \ KeySet(before)
    /\ \A i \in ChildCalls("PUT") :
         /\ log[i].key \in KeySet(After)
         /\ \E j \in 1..Len(before) :
              Key(before[j]) = log[i].key /\ before[j].name = log[i].name
    /\ \A i \in ChildCalls("DELETE") :
         \E j \in 1..Len(before) :
           before[j].name = log[i].name /\ Key(before[j]) \notin KeySet(After)

\* C10 witness: a diff deleted a child and then created another
C10_Witness ==
    kind \in Nested /\ \E i, j \in 1..Len(log) :
      /\ i < j
      /\ log[i].level = "child" /\ log[i].op = "DELETE" /\ log[i].res = "ok"
      /\ log[j].level = "child" /\ log[j].op = "POST" /\ log[j].res = "ok"

\* ------------------------------------------------------------------------
\* C11
\* ------------------------------------------------------------------------
\* C11: for every kind apply handles, an invocation with outputFormat set
\* or dryRun true ends at once, having made no fetch, no version fetch and
\* no write, and leaves the remote as it was.
C11_PreviewMakesNoCalls ==
    [][preview' => (log' = <<>> /\ remote' = remote /\ pc' = "Done")]_vars

\* C11 witness: a standalone Server manifest was previewed against an
\* existing backend
C11_Witness ==
    /\ preview
    /\ status = "preview"
    /\ kind = "Server"
    /\ remote.exists

\* ------------------------------------------------------------------------
\* C12
\* ------------------------------------------------------------------------
\* a child lacks a field its identity needs
ChildIncomplete(c) ==
    IF kind = "Backend" THEN c.name = "" \/ c.address = "" \/ c.port = 0
    ELSE c.address = "" \/ c.port = 0

\* the manifest has an empty name, a mode outside {http, tcp} or an
\* incomplete child
InvalidManifest ==
    \/ manifest.cfg.name = ""
    \/ manifest.cfg.mode \notin {"http", "tcp"}
    \/ \E i \in 1..Len(manifest.children) : ChildIncomplete(manifest.children[i])

\* C12: a Backend or Frontend manifest with an empty name, a mode outside
\* {http, tcp} or an incomplete child ends the invocation with an error
\* before any remote call.
C12_ValidationPrecedesIO ==
    (kind \in Nested /\ applies > 0 /\ InvalidManifest)
    => (log = <<>> /\ pc = "Done" /\ status = "error")

\* C12 witness: a Backend manifest with mode udp was refused
C12_Witness ==
    /\ kind = "Backend"
    /\ applies > 0
    /\ manifest.apiVersion = "haproxyctl/v1"
    /\ manifest.kind = "Backend"
    /\ manifest.cfg.mode = "udp"
    /\ status = "error"

\* ------------------------------------------------------------------------
\* C13
\* ------------------------------------------------------------------------
\* the kinds the specification lists
ListedKinds == {"Backend", "Frontend", "Server", "Userlist", "Global", "Defaults"}

\* the kinds the switch of applyFromFile has a case for, in lower case
SupportedKinds == {"backend", "frontend", "global", "defaults", "server"}

\* the invocation ended with an error before any remote call
Rejected == log = <<>> /\ pc = "Done" /\ status = "error"

ParentCalls(op) == {i \in 1..Len(log) : log[i].level = "parent" /\ log[i].op = op}

\* C14: in a Backend or Frontend apply the first remote call is the fetch
\* of the parent; if it fails with anything but not-found it is the only
\* call and the invocation ends with an error; the parent is POSTed only
\* after not-found and the children are listed only after the parent was
\* found.
C14_ParentFetchErrorIsFatal ==
    (kind \in Nested /\ log # <<>>)
    => /\ log[1].op = "fetchOne"
       /\ log[1].res = "error" => (Len(log) = 1 /\ pc = "Done" /\ status = "error")
       /\ ParentCalls("POST") # {} => log[1].res = "notfound"
       /\ status = "created" => log[1].res = "notfound"
       /\ Fetched => log[1].res = "ok"

\* C14 witness: the fetch of the parent failed in transit and the
\* invocation ended there
C14_Witness ==
    /\ kind \in Nested
    /\ Len(log) = 1
    /\ log[1].op = "fetchOne"
    /\ log[1].res = "error"
    /\ status = "error"

\* ------------------------------------------------------------------------
\* C15
\* ------------------------------------------------------------------------
\* position in log of the fetch of the children list (0: none)
ListAt == IF \E i \in 1..Len(log) : log[i].op = "fetchList" THEN 3 ELSE 0

\* C15: on the comparison path a not-found result of the children fetch
\* gives an empty before collection and the apply goes on to the no-op
\* test, while any other error of the children fetch ends the invocation
\* with an error and without any write.
C15_ChildrenFetchErrors ==
    (kind \in Nested /\ ListAt # 0)
    => /\ log[ListAt].op = "fetchList"
       /\ log[ListAt].res = "notfound"
            => /\ before = <<>>
               /\ Len(log) = ListAt => (pc \in {"Unchanged", "Replace"} \/ status = "unchanged")
       /\ log[ListAt].res = "error"
            => /\ Len(log) = ListAt
               /\ Writes = <<>>
               /\ pc = "Done"
               /\ status = "error"

\* C15 witness: the children fetch returned not-found (another client had
\* deleted the parent) and the apply went on to PUT the parent
C15_Witness ==
    /\ kind \in Nested
    /\ ListAt # 0
    /\ log[ListAt].res = "notfound"
    /\ Len(log) > ListAt
    /\ log[ListAt + 1].op = "PUT"

\* ------------------------------------------------------------------------
\* C16
\* ------------------------------------------------------------------------
\* positions in log of the child writes that failed
FailedChildCalls ==
    {i \in 1..Len(log) : log[i].level = "child" /\ IsWrite(log[i]) /\ log[i].res # "ok"}

\* C16: in a Backend or Frontend apply a failed child create, update or
\* delete is the last remote call of the invocation (nothing is written
\* after it and it is not issued again), the invocation ends with an
\* error and no status line, and the step on which the call fails leaves
\* the remote, with the writes applied before, as it was (or as another
\* client's write in that step made it).
C16_FailFastNoRollback ==
    /\ [](kind \in Nested =>
            \A i \in FailedChildCalls :
                i = Len(log) /\ pc = "Done" /\ status = "error")
    /\ [][(kind \in Nested /\ FailedChildCalls = {} /\ FailedChildCalls' # {})
            => remote' = IF extWrites' = extWrites THEN remote
                         ELSE OtherClientWrote(remote)]_vars

\* C16 witness: the second child write of an invocation failed after the
\* parent and the first child had been written
C16_Witness ==
    /\ kind \in Nested
    /\ FailedChildCalls # {}
    /\ Len(Writes) = 3
    /\ Writes[1].res = "ok"
    /\ Writes[2].res = "ok"
    /\ status = "error"

\* ------------------------------------------------------------------------
\* C17
\* ------------------------------------------------------------------------
\* positions in log of the version fetches that failed
FailedVersionFetches ==
    {i \in 1..Len(log) : log[i].op = "fetchVersion" /\ log[i].res # "ok"}

\* C17 (as claimed): when a version fetch of the invocation has failed,
\* the invocation has issued no write.
C17_NoWriteBeforeVersionFailure ==
    FailedVersionFetches # {} => Writes = <<>>

\* C17 (amended): a failed version fetch is the last remote call of the
\* invocation, which ends with an error: the write the version was
\* fetched for is not issued, nor any later one.  When the failed fetch
\* is the first version fetch of the invocation no write has been issued
\* at all; writes issued before a later one stay.
C17_VersionFailureEndsInvocation ==
    \A i \in FailedVersionFetches :
      /\ i = Len(log)
      /\ pc = "Done"
      /\ status = "error"
      /\ (\A j \in 1..(i - 1) : log[j].op # "fetchVersion") => Writes = <<>>

\* C17 witness: the version fetch for a child failed after the parent had
\* been written
C17_Witness ==
    /\ FailedVersionFetches # {}
    /\ Writes # <<>>
    /\ Writes[1].level = "parent"
    /\ Writes[1].res = "ok"
    /\ status = "error"

\* ------------------------------------------------------------------------
\* C18: the apply state machine and the status line
\* ------------------------------------------------------------------------
\* the status line the specification prescribes, written out from its
\* format <kind-lowercase>/<name> <action>
ExpectedLine(action) ==
    (IF kind = "Backend" THEN "backend" ELSE "frontend") \o "/" \o manifest.cfg.name
        \o " " \o action

\* the lines of the prescribed format
FormatLines == {ExpectedLine(a) : a \in {"created", "configured", "unchanged", "deleted"}}

\* an invocation of a Backend or Frontend apply has returned
Returned == kind \in Nested /\ pc = "Done" /\ applies > 0 /\ ~preview

\* the parent was PUT by the current invocation
ParentPut ==
    \E i \in 1..Len(log) : log[i].op = "PUT" /\ log[i].level = "parent" /\ log[i].res = "ok"

\* the path of a successful apply and the action it reports: existence
\* check first, then creation, or comparison and either nothing or the
\* replacement followed by the children
PathAndAction ==
    /\ status \in {"created", "unchanged", "configured"}
    /\ Len(log) >= 1
    /\ log[1].op = "fetchOne" /\ log[1].level = "parent"
    /\ status = "created" <=> log[1].res = "notfound"
    /\ status = "unchanged" <=> (log[1].res = "ok" /\ Writes = <<>>)
    /\ status = "configured" <=> (log[1].res = "ok" /\ ParentPut)
    /\ status = "created" =>
          /\ \E i \in 2..Len(log) : log[i].op = "POST" /\ log[i].level = "parent"
          /\ \A i \in 1..Len(log) : log[i].op \notin {"fetchList", "PUT", "DELETE"}
    /\ status # "created" =>
          /\ \E i \in 2..Len(log) : log[i].op = "fetchList"
          /\ \A i \in 1..Len(log) : ~(log[i].op = "POST" /\ log[i].level = "parent")
    /\ status = "configured" =>
          \A i \in 1..Len(log) : log[i].level = "child" /\ IsWrite(log[i]) =>
              \E j \in 1..(i - 1) : log[j].op = "PUT" /\ log[j].level = "parent"

\* C18: every successful apply of a Backend or Frontend follows Start,
\* CheckExists, then Create or CompareState (Unchanged, or Replace and
\* ReconcileChildren), then Done, and prints exactly one status line
\* <kind-lowercase>/<name> <action>, as its last step: created iff the
\* parent fetch returned not-found, unchanged iff the parent existed and
\* no write was issued, configured iff the parent existed and was PUT; an
\* invocation that returns an error prints no such line.  The messages
\* of CreateServer and DeleteServer that a backend apply prints before
\* it are not of that format.
C18_StatusLineEndsApply ==
    Returned =>
        IF status = "error"
        THEN \A i \in 1..Len(stdout) : stdout[i] \notin FormatLines
        ELSE /\ PathAndAction
             /\ Len(stdout) >= 1
             /\ stdout[Len(stdout)] = ExpectedLine(status)
             /\ \A i \in 1..(Len(stdout) - 1) : stdout[i] \notin FormatLines
             /\ kind = "Frontend" => Len(stdout) = 1

\* a backend was created together with a server
C18_Witness ==
    /\ Returned
    /\ kind = "Backend"
    /\ status = "created"
    /\ Len(manifest.children) >= 1

\* ------------------------------------------------------------------------
\* C19: a bind without a wire name is skipped, not fatal
\* ------------------------------------------------------------------------
\* keys of the before-binds that the diff must delete or update and that
\* have no wire name
Degraded ==
    {k \in DeleteKeys \cup (UpsertKeys \cap DOMAIN BeforeByKey) : BeforeByKey[k].name = ""}

\* the writes the diff owes to the binds it can address: a DELETE by
\* name, a POST for a new key, a PUT for a matched unequal one
Reconciled ==
    /\ \A k \in DeleteKeys \ Degraded :
          \E i \in ChildCalls("DELETE") : log[i].name = BeforeByKey[k].name
    /\ \A k \in UpsertKeys \ DOMAIN BeforeByKey :
          \E i \in ChildCalls("POST") : log[i].key = k
    /\ \A k \in (UpsertKeys \cap DOMAIN BeforeByKey) \ Degraded :
          \E i \in ChildCalls("PUT") : log[i].key = k

\* the diff of a frontend's binds is running or has run
BindDiffEntered ==
    /\ kind = "Frontend"
    /\ pc \in {"ReconcileChildren", "Done"}
    /\ ParentPut
    /\ UniqueKeys(before)

\* C19: in applyBindDiff a bind that must be deleted or updated and
\* whose before-entry has an empty wire name gets no DELETE and no PUT,
\* is no error (the diff fails only on a failed call), and does not keep
\* the other binds from being reconciled in the same run.
C19_DegradedBindIsSkipped ==
    BindDiffEntered =>
        /\ \A i \in ChildCalls("DELETE") \cup ChildCalls("PUT") :
              /\ log[i].name # ""
              /\ log[i].key \notin Degraded
        /\ status = "error" => log[Len(log)].res # "ok"
        /\ (pc = "Done" /\ status # "error") => (status = "configured" /\ Reconciled)

\* a run that skipped a bind without a name, deleted one bind and created
\* another, and ended with its status line
C19_Witness ==
    /\ BindDiffEntered
    /\ status = "configured"
    /\ Degraded # {}
    /\ ChildCalls("DELETE") # {}
    /\ ChildCalls("POST") # {}

\* ------------------------------------------------------------------------
\* C20: the wire name of a bind is carried over and is not compared
\* ------------------------------------------------------------------------
\* bind a of the manifest and bind b of before are the same bind with the
\* same settings
SameBind(a, b) == a.address = b.address /\ a.port = b.port /\ a.ssl = b.ssl

\* the manifest's binds and the remote's differ in nothing but the names
\* the remote has given them
BindsDifferInNameOnly ==
    /\ Len(After) = Len(before)
    /\ \A i \in 1..Len(After) : After[i].name = ""
    /\ \A i \in 1..Len(After) : \E j \in 1..Len(before) : SameBind(After[i], before[j])
    /\ \E j \in 1..Len(before) : before[j].name # ""

\* the comparison of a frontend's binds has been made
BindsCompared ==
    /\ kind = "Frontend"
    /\ pc \in {"Unchanged", "Replace", "ReconcileChildren", "Done"}
    /\ Fetched
    /\ UniqueKeys(before)
    /\ UniqueKeys(After)

\* C20: an after-bind that matches a before-bind by address:port takes
\* that entry's wire name before the equality check, so every bind PUT
\* or DELETE of applyBindDiff is addressed with the non-empty wire name of
\* an entry of before (a PUT with that of the entry it matched), and a
\* manifest bind, which carries no name, is never reported as changed
\* merely because the remote bind has one.
C20_BindNameCarriedOver ==
    BindsCompared =>
        /\ \A i \in ChildCalls("DELETE") :
              /\ log[i].name # ""
              /\ \E j \in 1..Len(before) : before[j].name = log[i].name
        /\ \A i \in ChildCalls("PUT") :
              /\ log[i].name # ""
              /\ \E j \in 1..Len(before) :
                    /\ before[j].name = log[i].name
                    /\ BindKey(before[j]) = log[i].key
                    /\ \E a \in 1..Len(After) :
                          BindKey(After[a]) = log[i].key /\ ~SameBind(After[a], before[j])
        /\ (BindsDifferInNameOnly /\ Current(rawParent) = manifest.cfg)
              => (pc # "Replace" /\ status # "configured" /\ Writes = <<>>)

\* a frontend whose binds differ from the manifest's in their names only
\* was found unchanged
NamesOnlyUnchanged ==
    /\ BindsCompared
    /\ status = "unchanged"
    /\ BindsDifferInNameOnly

\* a matched manifest bind was sent as a PUT under the name of its
\* before-entry
C20_Witness ==
    /\ BindsCompared
    /\ status = "configured"
    /\ \E i \in ChildCalls("PUT") :
          /\ log[i].res = "ok"
          /\ \E a \in 1..Len(After) : BindKey(After[a]) = log[i].key /\ After[a].name = ""

\* ------------------------------------------------------------------------
\* C21: of several children with one identity key the last one counts
\* ------------------------------------------------------------------------
\* the last element of seq with identity key k
LastWith(seq, k) ==
    seq[CHOOSE i \in 1..Len(seq) :
           Key(seq[i]) = k /\ \A j \in (i + 1)..Len(seq) : Key(seq[j]) # k]

\* positions in log of the writes to children
ChildWrites == {i \in 1..Len(log) : log[i].level = "child" /\ IsWrite(log[i])}

\* the identity key the child write at position i is about: a DELETE is
\* addressed by the name of a before-entry
KeyOfCall(i) ==
    IF log[i].op = "DELETE"
    THEN {Key(before[j]) : j \in {l \in 1..Len(before) : before[l].name = log[i].name}}
    ELSE {log[i].key}

\* the fetched or sent JSON child c has the fields of the typed child a
WireHolds(c, a) ==
    /\ c.address = a.address
    /\ c.port = a.port
    /\ (c.ssl # "") = a.ssl
    /\ kind = "Backend" => (c.name = a.name /\ c.weight = a.weight)

\* a child of the remote has the fields of a
RemoteHolds(r, a) == \E j \in 1..Len(r.children) : WireHolds(r.children[j], a)

\* the diff of the children is running or has run
DiffEntered == kind \in Nested /\ pc \in {"ReconcileChildren", "Done"} /\ ParentPut

\* the write just appended to the log, if it is an accepted POST or PUT
\* of a child
Sent(l) ==
    /\ Len(l) > 0
    /\ l[Len(l)].level = "child"
    /\ l[Len(l)].op \in {"POST", "PUT"}
    /\ l[Len(l)].res = "ok"

\* C21: when before or after holds several children with one identity
\* key the diff uses the last of them only: at most one child call is
\* made per key, the comparison that decides on an update is between the
\* last occurrences, a delete is addressed by the last occurrence's
\* name, and what is sent is the last occurrence of the manifest.
C21_LastOccurrenceWins ==
    /\ [](DiffEntered =>
            /\ \A i, j \in ChildWrites : KeyOfCall(i) \cap KeyOfCall(j) # {} => i = j
            /\ \A i \in ChildCalls("PUT") :
                  /\ log[i].key \in KeySet(before) \cap KeySet(After)
                  /\ ~SameFields(LastWith(before, log[i].key), LastWith(After, log[i].key))
                  /\ kind = "Frontend" => log[i].name = LastWith(before, log[i].key).name
            /\ \A i \in ChildCalls("DELETE") :
                  \E k \in KeySet(before) \ KeySet(After) :
                      log[i].name = LastWith(before, k).name
            /\ \A i \in ChildCalls("POST") :
                  log[i].key \in KeySet(After) \ KeySet(before)
            /\ status = "configured" =>
                  \A k \in KeySet(before) \cap KeySet(After) :
                      (/\ ~SameFields(LastWith(before, k), LastWith(After, k))
                       /\ ~MissingName(LastWith(before, k)))
                      => \E i \in ChildCalls("PUT") : log[i].key = k)
    /\ [][(DiffEntered /\ pc = "ReconcileChildren" /\ log' # log /\ Sent(log'))
              => RemoteHolds(remote', LastWith(After, log'[Len(log')].key))]_vars

\* a diff ran to its end on a manifest that lists one key twice, and one
\* on a remote that holds one key twice, each with a write for that key
DuplicateKeyWritten(seq) ==
    \E i \in ChildWrites :
        /\ log[i].res = "ok"
        /\ \E k \in KeyOfCall(i) :
              Cardinality({j \in 1..Len(seq) : Key(seq[j]) = k}) > 1

C21_Witness ==
    /\ DiffEntered
    /\ status = "configured"
    /\ DuplicateKeyWritten(After)

\* the same for a remote that holds two binds of one address and port
DuplicateBeforeWritten ==
    /\ DiffEntered
    /\ status = "configured"
    /\ DuplicateKeyWritten(before)

\* ------------------------------------------------------------------------
\* C22: partial remote objects are left out of before
\* ------------------------------------------------------------------------
\* a fetched child that lacks what the apply needs to handle it: a server
\* its name, address or port, a bind its address or port
Partial(c) ==
    \/ c.address = ""
    \/ c.port = 0
    \/ kind = "Backend" /\ c.name = ""

\* the fetched children that are not partial, in the order fetched
Whole == SelectSeq(rawChildren, LAMBDA c : ~Partial(c))

\* the children have been fetched from a remote that holds a partial one
FetchedPartial ==
    /\ kind \in Nested
    /\ Fetched
    /\ pc \in {"Unchanged", "Replace", "ReconcileChildren", "Done"}
    /\ \E j \in 1..Len(rawChildren) : Partial(rawChildren[j])

\* C22: remote servers without a name, an address or a non-zero port, and
\* remote binds without an address or a port, are not in the before
\* collection of the no-op check and the diff, so no update and no
\* delete is ever issued for such an object.
C22_PartialObjectsExcluded ==
    FetchedPartial =>
        /\ Len(before) = Len(Whole)
        /\ \A j \in 1..Len(before) :
              /\ before[j].name = Whole[j].name
              /\ before[j].address = Whole[j].address
              /\ before[j].port = Whole[j].port
        /\ \A i \in ChildCalls("PUT") \cup ChildCalls("DELETE") :
              \A j \in 1..Len(rawChildren) :
                  Partial(rawChildren[j]) =>
                      /\ log[i].name # rawChildren[j].name
                      /\ log[i].key # ManifestKey(rawChildren[j])
        /\ (Current(rawParent) = manifest.cfg /\ MatchesManifest(TypedOf(Whole))
               /\ UniqueKeys(TypedOf(Whole)))
              => (pc # "Replace" /\ Writes = <<>>)

\* a diff ran to its end, deleting a whole child, on a remote that also
\* holds a partial one
C22_Witness ==
    /\ FetchedPartial
    /\ status = "configured"
    /\ ChildCalls("DELETE") # {}

\* an apply found nothing to do on a remote that holds a partial child
PartialUnchanged == FetchedPartial /\ status = "unchanged"

\* ------------------------------------------------------------------------
\* C23: servers are compared on name, address, port, weight and ssl
\* ------------------------------------------------------------------------
\* servers a and b differ in one of the five compared fields
FiveTupleDiffers(a, b) ==
    \/ a.name # b.name
    \/ a.address # b.address
    \/ a.port # b.port
    \/ a.weight # b.weight
    \/ a.ssl # b.ssl

\* servers a and b differ in a field that is not compared
OtherFieldDiffers(a, b) ==
    \/ a.apiVersion # b.apiVersion
    \/ a.kind # b.kind
    \/ a.backend # b.backend
    \/ a.parent # b.parent

\* the servers of a backend have been compared with the manifest's, each
\* name occurring once on either side
ServersCompared ==
    /\ kind = "Backend"
    /\ pc \in {"Unchanged", "Replace", "ReconcileChildren", "Done"}
    /\ Fetched
    /\ \A i, j \in 1..Len(before) : before[i].name = before[j].name => i = j
    /\ \A i, j \in 1..Len(After) : After[i].name = After[j].name => i = j

\* the manifest's servers are the remote's, up to the fields that are
\* not compared
SameServers ==
    /\ Len(before) = Len(After)
    /\ \A i \in 1..Len(After) : \E j \in 1..Len(before) :
          before[j].name = After[i].name /\ ~FiveTupleDiffers(before[j], After[i])

\* C23: a matched server is updated iff it differs from the remote one
\* in name, address, port, weight or ssl; a difference in apiVersion,
\* kind, backend or parent alone causes no PUT and does not keep the
\* apply from reporting unchanged.
C23_ServerEqualityIsFiveTuple ==
    ServersCompared =>
        /\ \A i \in ChildCalls("PUT") :
              \E a \in 1..Len(After), b \in 1..Len(before) :
                  /\ <<After[a].name>> = log[i].key
                  /\ before[b].name = After[a].name
                  /\ FiveTupleDiffers(before[b], After[a])
        /\ (status = "configured" /\ pc = "Done") =>
              \A a \in 1..Len(After), b \in 1..Len(before) :
                  (before[b].name = After[a].name /\ FiveTupleDiffers(before[b], After[a]))
                  => \E i \in ChildCalls("PUT") : log[i].key = <<After[a].name>>
        /\ (SameServers /\ Current(rawParent) = manifest.cfg)
              => (pc # "Replace" /\ status # "configured" /\ Writes = <<>>)

\* an apply reported unchanged although a server of the manifest differs
\* from the remote one in apiVersion, kind, backend and parent
C23_Witness ==
    /\ ServersCompared
    /\ status = "unchanged"
    /\ \E a \in 1..Len(After), b \in 1..Len(before) :
          /\ before[b].name = After[a].name
          /\ After[a].apiVersion # before[b].apiVersion
          /\ After[a].kind # before[b].kind
          /\ After[a].backend # before[b].backend
          /\ After[a].parent # before[b].parent

\* a diff updated one server and left alone another that differs from the
\* remote one in fields that are not compared
UncomparedFieldsLeftAlone ==
    /\ ServersCompared
    /\ status = "configured"
    /\ ChildCalls("PUT") # {}
    /\ \E a \in 1..Len(After), b \in 1..Len(before) :
          /\ before[b].name = After[a].name
          /\ OtherFieldDiffers(before[b], After[a])
          /\ ~FiveTupleDiffers(before[b], After[a])

\* ------------------------------------------------------------------------
\* C24: writes of other clients while an apply runs
\* ------------------------------------------------------------------------
\* the writes of the current invocation that the remote accepted
OwnWrites == Cardinality({i \in 1..Len(log) : IsWrite(log[i]) /\ log[i].res = "ok"})

\* the diff is running on a before collection that is out of date:
\* another client has written since the parent was PUT, so the remote's
\* version is ahead of the version of that PUT and the writes made since
SnapshotStale ==
    /\ DiffEntered
    /\ pc = "ReconcileChildren"
    /\ remote.version > version + OwnWrites

\* the call the step has appended to the log is a write
Wrote(l, ll) == Len(ll) > Len(l) /\ IsWrite(ll[Len(ll)])

\* a rejected write is the last call of its invocation, which ends with
\* an error: it is not repeated
ConflictIsFinal ==
    \A i \in 1..Len(log) :
        log[i].res = "conflict" => (i = Len(log) /\ pc = "Done" /\ status = "error")

Formatted == pc = "Populated"

\* the config that was populated has been encoded, or has failed to be
RoundTripped == pc \in {"Encoded", "Fatal"} /\ rawParent # NoObject

\* the count read back is the count given, without an error
ReadsBack ==
    /\ Formatted => ParseDurationToMillis(manifest.cfg.timeout_server) = rawParent.timeout_server
    /\ RoundTripped => (pc = "Encoded" /\ remote.cfg.timeout_server = rawParent.timeout_server)

\* FormatMillisAsDuration(0) = "" and ParseDurationToMillis("") = 0
ZeroIsEmpty ==
    /\ (Formatted /\ rawParent.timeout_server = Millis(0)) => manifest.cfg.timeout_server = <<>>
    /\ (pc \in {"Loaded", "Populated"} /\ manifest.cfg.timeout_server = <<>>)
           => ParseDurationToMillis(manifest.cfg.timeout_server) = Millis(0)
    /\ (pc \in {"Encoded", "Fatal"} /\ manifest.cfg.timeout_server = <<>>)
           => (pc = "Encoded" /\ remote.cfg.timeout_server = Millis(0))

\* C25 (as stated): for every count m >= 0 of milliseconds,
\* ParseDurationToMillis(FormatMillisAsDuration(m)) = m with no error;
\* FormatMillisAsDuration(0) = "" and ParseDurationToMillis("") = 0.
C25_DurationRoundTrip == ReadsBack /\ ZeroIsEmpty

\* the count times 10^6 fits an int64: m <= 9223372036854
FitsNanoseconds(m) ==
    MagLeq(Dur(TRUE, FALSE, m.h, m.ms, 0), Dur(TRUE, FALSE, 2562047, 2836854, 0))

\* C25 (amended): for every count m of milliseconds with
\* 0 <= m <= 9223372036854 (m * 10^6 fits an int64),
\* ParseDurationToMillis(FormatMillisAsDuration(m)) = m with no error;
\* FormatMillisAsDuration(0) = "" and ParseDurationToMillis("") = 0.
C25_RoundTripWithinInt64 ==
    /\ FitsNanoseconds(rawParent.timeout_server) => ReadsBack
    /\ ZeroIsEmpty

\* the largest count that fits has been written as 2562047h47m16.854s
C25_Witness ==
    /\ Formatted
    /\ rawParent.timeout_server = GoInt(FALSE, 2562047, 2836854)
    /\ manifest.cfg.timeout_server =
           <<"2", "5", "6", "2", "0", "4", "7", "h", "4", "7", "m", "1", "6", ".", "8", "5", "4", "s">>

\* a count with hours, minutes, seconds and a fraction has gone round
RoundTripEncoded ==
    /\ pc = "Encoded"
    /\ rawParent.timeout_server = Millis(90061001)
    /\ remote.cfg.timeout_server = Millis(90061001)

\* ------------------------------------------------------------------------
\* C26: timeouts on the wire
\* ------------------------------------------------------------------------
\* the timeout text of the config
TimeoutText == manifest.cfg.timeout_server

\* toPayload has run on the config
Converted == pc \in {"Encoded", "Fatal"}

\* a payload was produced, and its timeout is the count ms
Emits(ms) == pc = "Encoded" /\ remote.cfg.timeout_server = ms

\* the process ended and no payload was produced
FailsWithoutPayload == pc = "Fatal" /\ remote = RemoteAbsent(1)

\* the text is one run of at most two digits and a unit of a millisecond
\* or more: <number><unit>
NumberAndUnit ==
    LET g == SplitSegment(TimeoutText)
    IN  /\ TimeoutText # <<>>
        /\ Len(g.whole) \in 1..2
        /\ g.frac = <<>> /\ g.rest = <<>>
        /\ Len(g.whole) + Len(g.unit) = Len(TimeoutText)
        /\ UnitMillis(g.unit) > 0

\* number times the milliseconds of the unit
NumberTimesUnit ==
    LET g == SplitSegment(TimeoutText)
    IN  Millis(DigitsToInt(g.whole) * UnitMillis(g.unit))

\* the examples of the documentation
DocumentedExamples ==
    /\ TimeoutText = <<"3", "0", "s">> => Emits(Millis(30000))
    /\ TimeoutText = <<"1", "5", "0", "0", "m", "s">> => Emits(Millis(1500))
    /\ TimeoutText = <<"5", "0", "0", "0">> => Emits(Millis(5000))
    /\ TimeoutText = <<"n", "o", "t", "-", "a", "-", "d", "u", "r", "a", "t", "i", "o", "n">>
           => FailsWithoutPayload

\* C26 (as stated): toPayload emits every timeout in integer milliseconds
\* (a bare integer unchanged, <number><unit> converted), omits the field
\* when the text is empty (or blank), and fails without a payload when the
\* text is neither a bare integer nor a parseable duration.
C26_TimeoutInMilliseconds ==
    Converted =>
        /\ DocumentedExamples
        /\ TrimSpace(TimeoutText) = <<>> => Emits(Millis(0))
        /\ Atoi(TrimSpace(TimeoutText)) # ParseError => Emits(Atoi(TrimSpace(TimeoutText)))
        /\ NumberAndUnit => Emits(NumberTimesUnit)
        /\ ParseDuration(TrimSpace(TimeoutText)).ok
               => Emits(DurationMillis(ParseDuration(TrimSpace(TimeoutText))))
        /\ (/\ TrimSpace(TimeoutText) # <<>>
            /\ Atoi(TrimSpace(TimeoutText)) = ParseError
            /\ ~ParseDuration(TrimSpace(TimeoutText)).ok) => FailsWithoutPayload

\* the count when it is positive, and otherwise 0 (the field is omitted)
IfPositive(ms) == IF ~ms.neg THEN ms ELSE Millis(0)

\* C26 (amended): toPayload emits a timeout in integer milliseconds when
\* its value is positive (a bare integer unchanged, <number><unit>
\* converted), omits the field when the text is empty (or blank) or its
\* value is zero or negative, and fails without a payload when the text is
\* neither a bare integer nor a parseable duration.
C26_PositiveTimeoutInMilliseconds ==
    Converted =>
        /\ DocumentedExamples
        /\ TrimSpace(TimeoutText) = <<>> => Emits(Millis(0))
        /\ Atoi(TrimSpace(TimeoutText)) # ParseError
               => Emits(IfPositive(Atoi(TrimSpace(TimeoutText))))
        /\ NumberAndUnit => Emits(NumberTimesUnit)
        /\ (/\ Atoi(TrimSpace(TimeoutText)) = ParseError
            /\ ParseDuration(TrimSpace(TimeoutText)).ok)
               => Emits(IfPositive(DurationMillis(ParseDuration(TrimSpace(TimeoutText)))))
        /\ (/\ TrimSpace(TimeoutText) # <<>>
            /\ Atoi(TrimSpace(TimeoutText)) = ParseError
            /\ ~ParseDuration(TrimSpace(TimeoutText)).ok) => FailsWithoutPayload

\* "30s" has been sent as 30000
C26_Witness == TimeoutText = <<"3", "0", "s">> /\ Emits(Millis(30000))

\* a negative duration has produced a payload without the field
NegativeOmitted == TimeoutText = <<"-", "1", "s">> /\ Emits(Millis(0))

\* a text that is no duration has ended the process
UnparseableFatal == TimeoutText = <<"5", "x">> /\ FailsWithoutPayload

\* ------------------------------------------------------------------------
\* C27: Global and Defaults
\* ------------------------------------------------------------------------
\* the invocation is an apply of a section
IsSection == kind \in {"Global", "Defaults"}

\* the calls of the unchanged path and of the configured path of applyConfig
ConfigPathCalls ==
    /\ status = "unchanged" => Ops \in {<<"fetchOne">>, <<"fetchList">>}
    /\ status = "configured" => Ops \in {<<"fetchOne", "fetchVersion", "PUT">>,
                                         <<"fetchList", "fetchVersion", "PUT">>}

\* the second of two applies of a manifest has ended, and nothing came
\* between them or failed
Reapplied == repeat /\ pc = "Done" /\ ~interfered /\ NoTransportError

\* C27 (as claimed): applyConfig reports "unchanged" after the fetch of
\* the section alone, or "configured" after that fetch, one version fetch
\* and exactly one PUT; and a second apply of the same Global or Defaults
\* manifest after a successful one, with no other writer, reports
\* "unchanged" and writes nothing, whatever the case of the kind and also
\* when a Defaults manifest omits the name.
C27_ConfigApplyIdempotent ==
    IsSection =>
        /\ ConfigPathCalls
        /\ Reapplied => (status = "unchanged" /\ Writes = <<>>)

\* the kind is spelled as mapGlobalFromAPI / mapDefaultsFromAPI spell it,
\* and the name of a Defaults section is given
AsReadBack == manifest.kind = kind /\ (kind = "Defaults" => manifest.cfg.name # "")

\* what the code does: the calls are as claimed, and the second apply is
\* "unchanged" for the manifests that are spelled as they are read back
ConfigIdempotentAsReadBack ==
    IsSection =>
        /\ ConfigPathCalls
        /\ (Reapplied /\ AsReadBack) => (status = "unchanged" /\ Writes = <<>>)

\* a lower-case kind has been configured a second time
LowerCaseConfiguredAgain ==
    /\ Reapplied
    /\ manifest.kind = "global"
    /\ status = "configured"
    /\ Len(Writes) = 1

\* a Defaults manifest without a name has been configured a second time
NamelessConfiguredAgain ==
    /\ Reapplied
    /\ kind = "Defaults"
    /\ manifest.cfg.name = ""
    /\ status = "configured"
    /\ Len(Writes) = 1

\* ------------------------------------------------------------------------
\* C28: the no-op test and the diff
\* ------------------------------------------------------------------------
\* the children have been fetched and typed, and the no-op test made
Compared == kind \in Nested /\ Fetched /\ pc # "Done"

\* serversEqualByName(before, after) / bindsEqualByKey(before, after)
ChildrenEqual ==
    IF IsBackend THEN serversEqualByName(before, After) ELSE bindsEqualByKey(before, After)

\* the keys for which applyServerDiff / applyBindDiff on before and after
\* issues a child call: the deletions and the creations and updates that
\* are not skipped for a missing name
ChildCallKeys ==
    {k \in DeleteKeys : ~MissingName(BeforeByKey[k])}
    \cup {k \in UpsertKeys : ~(k \in DOMAIN BeforeByKey /\ MissingName(NewChild(k)))}

\* the predicate is true exactly when the diff issues no child call
PredicateAgreesWithDiff == ChildrenEqual <=> ChildCallKeys = {}

\* a finished apply that found the parent fields equal and PUT the parent
\* has made a child call
PutOnlyWithChildCall ==
    (/\ kind \in Nested
     /\ status = "configured"
     /\ Current(rawParent) = manifest.cfg)
    => \E i \in 1..Len(log) : log[i].level = "child" /\ IsWrite(log[i])

PlainCollections ==
    /\ UniqueKeys(before)
    /\ UniqueKeys(After)
    /\ \A i \in 1..Len(before) : ~MissingName(before[i])

EqualButDeletes == Compared /\ ChildrenEqual /\ DeleteKeys # {}

\* the parent was PUT and the apply ended without any child call
PutWithoutChildCall ==
    /\ kind \in Nested
    /\ status = "configured"
    /\ Current(rawParent) = manifest.cfg
    /\ ~\E i \in 1..Len(log) : log[i].level = "child" /\ IsWrite(log[i])

\* ------------------------------------------------------------------------
\* C29: apply of a standalone Server
\* ------------------------------------------------------------------------
\* a non-preview apply of a Server manifest has returned
ServerApplied == kind = "Server" /\ pc = "Done" /\ ~preview /\ EnvelopeOK(manifest)

\* positions in log of the existence fetches of the manifest's server
ExistenceFetches ==
    {i \in 1..Len(log) : log[i].op = "fetchOne" /\ log[i].name = manifest.cfg.name}

\* the calls after the existence fetch are those of one helper: a version
\* fetch and, when it succeeded, one write op of the manifest's server
OneWriteFollows(op) ==
    /\ Len(log) \in 2..3
    /\ log[2].op = "fetchVersion"
    /\ log[2].res = "ok" <=> Len(log) = 3
    /\ Len(log) = 3 =>
         /\ log[3].op = op
         /\ log[3].level = "child"
         /\ log[3].name = manifest.cfg.name

\* C29: a non-preview apply of a Server manifest whose parent or backend
\* is set makes exactly one existence fetch of the server, as its first
\* call; when the fetch succeeds one update (UpdateServer: a version fetch
\* and a PUT of the server) follows, when it returns 404 one create
\* (CreateServer: a version fetch and a POST) follows, and on any other
\* error, or when neither parent nor backend is set, no write is issued;
\* no invocation issues more than one server write.
C29_ServerApplyOneWrite ==
    /\ kind = "Server" => Len(Writes) <= 1
    /\ (ServerApplied /\ NormalizeParent(manifest.cfg) = "") => log = <<>>
    /\ (ServerApplied /\ NormalizeParent(manifest.cfg) # "") =>
         /\ ExistenceFetches = {1}
         /\ log[1].res = "ok" => OneWriteFollows("PUT")
         /\ log[1].res = "notfound" => OneWriteFollows("POST")
         /\ log[1].res = "error" => Len(log) = 1

\* an existing server has been updated by the three calls
C29_Witness ==
    /\ ServerApplied
    /\ status = "updated"
    /\ Ops = <<"fetchOne", "fetchVersion", "PUT">>
    /\ log[1].res = "ok"

\* a missing server has been created by the three calls
ServerAdded ==
    /\ ServerApplied
    /\ status = "added"
    /\ Ops = <<"fetchOne", "fetchVersion", "POST">>
    /\ log[1].res = "notfound"

\* the existence fetch failed and nothing was written
ServerFetchFailed == ServerApplied /\ Len(log) = 1 /\ log[1].res = "error"

\* ------------------------------------------------------------------------
\* C30: recovery after a partial failure
\* ------------------------------------------------------------------------
\* the apply that has ended repeats the manifest of one that failed after
\* a write of its own; no other client wrote during either, and no call
\* of the second failed in transit
Retried ==
    /\ kind \in Nested
    /\ retry
    /\ pc = "Done"
    /\ ~interfered
    /\ NoTransportError

\* the apply took the comparison path: the parent was found
ComparisonPath == log # <<>> /\ log[1].op = "fetchOne" /\ log[1].res = "ok"

\* C30 (as claimed): when a Backend or Frontend apply has failed after its
\* parent write or after some child writes, a second apply of the same
\* manifest, with no other writer and no failed call, succeeds on the
\* comparison path and leaves the remote children equal to the manifest's
\* children.
C30_RecoveryAfterPartialFailure ==
    Retried =>
        /\ status \in {"configured", "unchanged"}
        /\ ComparisonPath
        /\ MatchesManifest(TypedOf(remote.children))

\* what the code does: the second apply succeeds on the comparison path
\* and the remote children equal the manifest's when the manifest has no
\* duplicate key and no child with ssl, and the remote had no duplicate
\* key, no partial object and no bind without a name
RecoveryWithoutSsl ==
    (/\ Retried
     /\ UniqueKeys(After)
     /\ \A i \in 1..Len(After) : ~After[i].ssl
     /\ UniqueKeys(TypedOf(rawChildren))
     /\ \A i \in 1..Len(rawChildren) : ~Partial(TypedOf(rawChildren)[i])
     /\ kind = "Frontend" => \A i \in 1..Len(rawChildren) : rawChildren[i].name # "")
    => /\ status \in {"configured", "unchanged"}
       /\ ComparisonPath
       /\ MatchesManifest(TypedOf(remote.children))

\* a creation that failed after the parent POST has been repaired by a
\* second apply on the comparison path
CreationRepaired ==
    /\ Retried
    /\ status = "configured"
    /\ ComparisonPath
    /\ rawChildren = <<>>
    /\ Len(After) = 2
    /\ MatchesManifest(TypedOf(remote.children))

\* the second apply has ended "configured" and the remote server still
\* reads back without the ssl the manifest asks for
SslLostAfterRecovery ==
    /\ Retried
    /\ status = "configured"
    /\ \E i \in 1..Len(After) : After[i].ssl
    /\ \A j \in 1..Len(remote.children) : ~TypedOf(remote.children)[j].ssl
====
